---- MODULE Spec2Model ----
(***************************************************************************)
(* A model of telicent-lib's pipeline engines (Mapper, Projector,          *)
(* AutomaticAdapter), the Record header algebra they use, and the          *)
(* KafkaSource seek / commit state machine.                                *)
(*                                                                         *)
(* Spec       the run() loop of the three engines over a list-like source  *)
(*            (one that raises StopIteration), a target sink and a DLQ     *)
(*            sink.                                                        *)
(* SpecKafka  KafkaSource.__next__ / rebalance callbacks / close driven by *)
(*            the read-process loop of an action, over a consumer of a     *)
(*            static two-partition topic, with a restart.                  *)
(* SpecSink     KafkaSink.send / close over a bounded producer queue.      *)
(* SpecAction   the Action lifecycle methods called directly.              *)
(* SpecProgress the progress methods of an Action called within its runs.  *)
(* SpecReporter the main thread and the heartbeat thread of a Reporter.    *)
(* SpecRecords  one RecordUtils call on a record sharing a header list.    *)
(* SpecLabels   SecurityLabelBuilder add, add_multiple, add_or_expression, *)
(*              build.                                                     *)
(* SpecAdapter  a manual Adapter: run, send, then finished or aborted.     *)
(* SpecLag      KafkaSource.remaining between polls of a static topic.     *)
(***************************************************************************)
EXTENDS Integers, Sequences, FiniteSets, TLC

\* ------------------------------------------------------------------ bounds
\* Longest source (number of records the source yields before StopIteration).
MaxRecords == 2
\* Longest list a map function returns for one input record.
MaxFlat == 2
\* reporting_batch_size of the action (DEFAULT_REPORTING_BATCH_SIZE scaled down).
ReportingBatchSize == 2
\* Records in each partition of the topic a KafkaSource reads.
NumOffsets == 2
\* Rebalance callbacks (assignments and revocations) in one behaviour.
MaxRebalances == 3
\* Restarts of the action after its source was closed.
MaxRestarts == 1
\* Messages the producer of a KafkaSink queues before produce() raises BufferError.
QueueMax == 1
\* Calls of KafkaSink.send in one behaviour of the sink.
MaxSends == 3
\* Calls of the Action's lifecycle methods in one behaviour of its API.
MaxCalls == 6
\* Times the heartbeat thread's wait runs out its heartbeat_time in one behaviour.
MaxTimeouts == 2
\* Most headers of a Record handed to a RecordUtils function.
MaxHeaders == 2
\* Most headers in the list handed to RecordUtils.add_headers.
MaxAdded == 1
\* Most entries of a SecurityLabelBuilder's AND-group.
MaxLabels == 2
\* Most OR-expressions of a SecurityLabelBuilder.
MaxOrs == 2
\* Most values handed to one add_multiple.
MaxValues == 2
\* Largest count passed to records_processed().
MaxBatch == 4

\* ------------------------------------------------------- header values
\* A header value is a str or a bytes object; the payload is kept as text.
Str(s) == [t |-> "str", s |-> s]
Bytes(s) == [t |-> "bytes", s |-> s]
\* Python's None where a header value (or a looked-up value) is absent.
None == [t |-> "none", s |-> ""]

\* str.casefold() over the header keys that occur in the model.
casefold(k) ==
    CASE k = "Security-Label" -> "security-label"
      [] k = "Request-Id" -> "request-id"
      [] k = "Input-Request-Id" -> "input-request-id"
      [] k = "Exec-Path" -> "exec-path"
      [] k = "Dead-Letter-Reason" -> "dead-letter-reason"
      [] k = "New-Header" -> "new-header"
      [] k = "Data-Source-Name" -> "data-source-name"
      [] k = "Data-Source-Type" -> "data-source-type"
      [] k = "Test" -> "test"
      [] k = "Other-Header" -> "other-header"
      [] OTHER -> k

\* RecordUtils.__decode_header_value__: bytes are decoded to str, str is kept.
decode_header_value(v) == IF v.t = "bytes" THEN Str(v.s) ELSE v

\* RecordUtils.__encode_header_value: str is encoded to bytes, bytes and None
\* are kept.
encode_header_value(v) == IF v.t \in {"bytes", "none"} THEN v ELSE Bytes(v.s)

Header(k, v) == [k |-> k, v |-> v]

\* Record(headers, key, value, raw): raw is an opaque borrowed handle and is
\* left out; a record without headers has the empty header sequence.
Record(headers, key, value) == [headers |-> headers, key |-> key, value |-> value]

\* RecordUtils.get_headers: the decoded values of every header whose key
\* matches case-insensitively, in order.
get_headers(record, header) ==
    LET Match(h) == casefold(h.k) = casefold(header)
        hs == SelectSeq(record.headers, Match)
    IN [i \in 1..Len(hs) |-> decode_header_value(hs[i].v)]

\* RecordUtils.has_header
has_header(record, header) ==
    \E i \in 1..Len(record.headers) : casefold(record.headers[i].k) = casefold(header)

\* RecordUtils.get_first_header: the decoded value of the first header whose
\* key matches case-insensitively, None without one.
get_first_header(record, header) ==
    LET vs == get_headers(record, header)
    IN IF Len(vs) = 0 THEN None ELSE vs[1]

\* RecordUtils.get_last_header: the last of get_headers, None without one.
get_last_header(record, header) ==
    LET vs == get_headers(record, header)
    IN IF Len(vs) = 0 THEN None ELSE vs[Len(vs)]

\* An add_header that puts the new header in front.
add_header_first(record, header, value) ==
    Record(<<Header(header, encode_header_value(value))>> \o record.headers,
           record.key, record.value)

\* RecordUtils.add_header: a new record with (header, encoded value) appended.
add_header(record, header, value) ==
    Record(Append(record.headers, Header(header, encode_header_value(value))),
           record.key, record.value)

\* RecordUtils.add_headers: the record itself when there is nothing to add,
\* else a new record with every (key, encoded value) appended in order.
add_headers(record, headers) ==
    IF Len(headers) = 0 THEN record
    ELSE Record(record.headers \o
                  [i \in 1..Len(headers) |->
                      Header(headers[i].k, encode_header_value(headers[i].v))],
                record.key, record.value)


\* First position of record.headers whose key matches header, 0 without one.
FirstMatch(record, header) ==
    LET ms == {i \in 1..Len(record.headers) : casefold(record.headers[i].k) = casefold(header)}
    IN IF ms = {} THEN 0 ELSE CHOOSE i \in ms : \A j \in ms : i <= j

\* RecordUtils.replace_or_add_header: the first header whose key matches gets
\* the value as given (not encoded); without a match (casefolded key, value)
\* is appended.
replace_or_add_header(record, header, value) ==
    LET m == FirstMatch(record, header)
    IN Record(IF m = 0 THEN Append(record.headers, Header(casefold(header), value))
              ELSE [record.headers EXCEPT ![m] = Header(@.k, value)],
              record.key, record.value)

\* A remove_header that compares the decoded values.
remove_header_decoded(record, header, value) ==
    LET Keep(h) == \/ casefold(h.k) # casefold(header)
                   \/ value # None /\ decode_header_value(value) # decode_header_value(h.v)
    IN Record(SelectSeq(record.headers, Keep), record.key, record.value)

\* RecordUtils.remove_header: drops the headers whose key matches and, when a
\* value is given, whose stored value equals it (str and bytes never equal).
remove_header(record, header, value) ==
    LET Keep(h) == \/ casefold(h.k) # casefold(header)
                   \/ value # None /\ value # h.v
    IN Record(SelectSeq(record.headers, Keep), record.key, record.value)

\* ------------------------------------------------------------ engine state
VARIABLES
    engine,        \* "mapper" | "projector" | "adapter": the class whose run() is modelled
    cfg,           \* constructor arguments and environment of the action
    pc,            \* position of run()
    srcRead,       \* records the source (the adapter's generator) has yielded so far
    fnLog,         \* what the map / projector function did on each of them
    action,        \* the Action's counters, timers and progress output
    target,        \* the target sink
    dlq,           \* the dead-letter sink (dlq_target)
    errorHandler,  \* the error handler
    reporter,      \* the Reporter
    uuid,          \* number of uuid.uuid4() calls so far (every call returns a new value)
    exit           \* how the loop was left and how run() ended

evars == <<engine, cfg, pc, srcRead, fnLog, action, target, dlq, errorHandler, reporter, uuid, exit>>

Engines == {"mapper", "projector", "adapter"}

\* has_dlq: set_dlq_target was called (AUTO_ENABLE_DLQ or by the caller).
\* sink_kind: "list" is a ListSink, "kafka" a KafkaSink (buffered producer);
\* it is the kind of the target and of the DLQ sink.
DefaultConfig ==
    [disable_persistent_headers |-> FALSE, has_dlq |-> TRUE,
     has_error_handler |-> TRUE, has_reporter |-> TRUE, sink_kind |-> "list"]

\* The default configuration and every configuration one setting away from it.
Configs ==
    { DefaultConfig,
      [DefaultConfig EXCEPT !.disable_persistent_headers = TRUE],
      [DefaultConfig EXCEPT !.has_dlq = FALSE],
      [DefaultConfig EXCEPT !.has_error_handler = FALSE],
      [DefaultConfig EXCEPT !.has_reporter = FALSE],
      [DefaultConfig EXCEPT !.sink_kind = "kafka"] }

\* Only the Mapper reads DISABLE_PERSISTENT_HEADERS, and an adapter has no DLQ.
EngineConfigs(e) ==
    IF e = "mapper" THEN Configs
    ELSE IF e = "projector" THEN {c \in Configs : ~c.disable_persistent_headers}
    ELSE {[c EXCEPT !.has_dlq = FALSE] : c \in {d \in Configs : ~d.disable_persistent_headers}}

\* target.get_sink_name() and Action.generate_id() (self.generated_id).
SinkName == "target"
generated_id == "Action-from-source-to-target"
DataSetTitle == "telicent_lib.adapter"
DataSetMime == "unknown"

\* carrier.get('traceparent', '') after TraceContextTextMapPropagator().inject:
\* nothing is injected when no tracing SDK is configured.
InjectedTraceparent == ""

\* Header sequences of the records a source yields.
InHeaders ==
    { <<>>,
      << Header("Request-Id", Str("up:1")), Header("Security-Label", Str("A")),
         Header("request-id", Bytes("up:2")), Header("security-label", Bytes("B")) >> }

\* The i-th record of a source: keys are distinct, as in the tests' sources.
InputRecords(i) == { Record(h, Str(ToString(i)), Str("in")) : h \in InHeaders }

\* Header sequences a map function gives its outputs: a header of its own, a
\* Security-Label of its own, or (for a single Record) the input's headers
\* passed through.
OutHeaders(record) ==
    { << Header("New-Header", Str("New Header")) >>,
      << Header("Security-Label", Str("NewLabel")) >>,
      record.headers }

Outcome(kind, out, msg) == [kind |-> kind, out |-> out, msg |-> msg]

\* What a RecordMapper may do with one record: return None, a Record, a list
\* of 0..MaxFlat Records, or raise DLQException, an Exception or
\* KeyboardInterrupt.
MapOutcomes(record) ==
    {Outcome("none", <<>>, "")}
    \cup {Outcome("single", <<Record(h, record.key, Str("1"))>>, "") : h \in OutHeaders(record)}
    \cup {Outcome("list", [j \in 1..k |-> Record(h, record.key, Str(ToString(j)))], "") :
            k \in 0..MaxFlat, h \in OutHeaders(record) \ {record.headers}}
    \cup {Outcome("dlq", <<>>, "Test Exception"),
          Outcome("fatal", <<>>, "ValueError"),
          Outcome("interrupt", <<>>, "KeyboardInterrupt")}

\* What a RecordProjector may do: return, or raise.
ProjectOutcomes ==
    {Outcome("none", <<>>, ""),
     Outcome("dlq", <<>>, "Test Exception"),
     Outcome("fatal", <<>>, "ValueError"),
     Outcome("interrupt", <<>>, "KeyboardInterrupt")}


\* ------------------------------------------------------------------ sinks
\* A sink: `buffer` holds what a KafkaSink's producer has accepted and not yet
\* delivered, `data` what has been delivered (a ListSink's list), `closed`
\* that close() has returned.
NewSink == [buffer |-> <<>>, data |-> <<>>, closed |-> FALSE]

\* Serializers.to_binary, the default key and value serializer of a KafkaSink.
to_binary(v) == IF v.t = "str" THEN Bytes(v.s) ELSE v

\* KafkaSink.send up to produce(): str header values become bytes, key and
\* value are serialized.
KafkaMessage(record) ==
    Record([i \in 1..Len(record.headers) |->
               IF record.headers[i].v.t = "str"
               THEN Header(record.headers[i].k, Bytes(record.headers[i].v.s))
               ELSE record.headers[i]],
           to_binary(record.key), to_binary(record.value))

\* The producer delivers the oldest message of its queue.
DeliverOne(sink) == [sink EXCEPT !.buffer = Tail(@), !.data = Append(@, Head(sink.buffer))]

\* A send that puts the record in front of what the sink holds.
SinkSend_front(sink, kind, record) == [sink EXCEPT !.data = <<record>> \o @]

\* ListSink.send appends the record to the list.  KafkaSink.send hands the
\* message to the producer: while produce() raises BufferError it waits in
\* poll(1) for a delivery to free space and tries again.
SinkSend(sink, kind, record) ==
    IF kind = "list"
    THEN [sink EXCEPT !.data = Append(@, record)]
    ELSE LET room == IF Len(sink.buffer) >= QueueMax THEN DeliverOne(sink) ELSE sink
         IN [room EXCEPT !.buffer = Append(@, KafkaMessage(record))]

RECURSIVE SinkSendAll(_, _, _)
SinkSendAll(sink, kind, records) ==
    IF records = <<>> THEN sink
    ELSE SinkSendAll(SinkSend(sink, kind, Head(records)), kind, Tail(records))

\* Everything send() has been called with, in call order.
Sent(sink) == sink.data \o sink.buffer

\* ----------------------------------------------------------------- Action
NewAction ==
    [counter |-> 0, read_counter |-> 0, output_counter |-> 0, error_count |-> 0,
     last_report_at |-> 0, next_batch_boundary |-> ReportingBatchSize,
     batch_timer |-> "None", total_timer |-> "None",
     records_processed_counter |-> 0, reports |-> <<>>, summary |-> "None"]

\* Action.started (the already-started error cannot occur in a first run).
started(a) == [a EXCEPT !.total_timer = "set", !.batch_timer = "set", !.counter = 0]

\* Action.report_progress: nothing at the counter value of the last report.
report_progress(a) ==
    IF a.last_report_at = a.counter THEN a
    ELSE [a EXCEPT !.last_report_at = a.counter,
                   !.next_batch_boundary = @ + ReportingBatchSize,
                   !.reports = Append(@, [at |-> a.counter, last |-> a.counter - a.last_report_at]),
                   !.batch_timer = "set"]

\* A record_processed that counts the record twice.
record_processed_twice(a) ==
    [a EXCEPT !.counter = @ + 2, !.records_processed_counter = @ + 2]

\* Action.record_processed
record_processed(a) ==
    LET b == [a EXCEPT !.counter = @ + 1, !.records_processed_counter = @ + 1]
    IN IF ReportingBatchSize > 0 /\ b.counter % ReportingBatchSize = 0 THEN report_progress(b)
       ELSE IF b.counter > b.next_batch_boundary THEN report_progress(b)
       ELSE b

\* Action.record_read and Action.record_output
record_read(a) == [a EXCEPT !.read_counter = @ + 1]
record_output(a) == [a EXCEPT !.output_counter = @ + 1]

\* Action.__reset_counters__
reset_counters(a) ==
    [a EXCEPT !.counter = 0, !.error_count = 0, !.total_timer = "None",
              !.batch_timer = "None", !.next_batch_boundary = ReportingBatchSize]

\* The Action part of finished(): final partial batch, summary, reset.
finished(a) ==
    LET b == IF a.counter % ReportingBatchSize # 0 THEN report_progress(a) ELSE a
    IN reset_counters([b EXCEPT !.summary = "Finished"])

\* An aborted() that does not report the final partial batch.
aborted_silent(a) == [a EXCEPT !.summary = "Aborted"]

\* The Action part of aborted(): final partial batch and summary, no reset.
aborted(a) ==
    LET b == IF a.counter % ReportingBatchSize # 0 THEN report_progress(a) ELSE a
    IN [b EXCEPT !.summary = "Aborted"]

\* The Reporter as the action sees it: registered at construction, run()
\* starts the heartbeat, stop_heartbeat() ends it and closes its sink.
NewReporter(has) == [state |-> IF has THEN "registered" ELSE "none", status |-> "STARTED"]
reporter_run(r) == IF r.state = "none" THEN r ELSE [r EXCEPT !.state = "running", !.status = "RUNNING"]
update_status(r, s) == IF r.state = "none" THEN r ELSE [r EXCEPT !.status = s]
stop_heartbeat(r) == IF r.state = "none" THEN r ELSE [r EXCEPT !.state = "stopped"]

\* An error handler that has been sent nothing and is open.
NewErrorHandler == [sent |-> <<>>, closed |-> FALSE]

\* A send_exception that hands nothing to the error handler.
send_exception_unreported(h, has, e, counter) == h

\* Action.send_exception: counted, and handed to the error handler if there is one.
send_exception(h, has, e, counter) ==
    IF has THEN [h EXCEPT !.sent = Append(@, [exception |-> e, counter |-> counter])] ELSE h


\* ----------------------------------------------------------------- Mapper
\* The headers the Mapper prepares for the outputs of one input record.
MapperOutputHeaders(record, request_id) ==
    LET ids == get_headers(record, "Request-Id")
    IN (IF Len(ids) = 0 THEN <<>> ELSE <<Header("Input-Request-Id", ids[Len(ids)])>>)
       \o << Header("Request-Id", Str(request_id)),
             Header("Exec-Path", Str(generated_id)),
             Header("traceparent", Str(InjectedTraceparent)) >>

\* for header_value in label_headers: output_data = add_header(output_data, ...)
RECURSIVE AddSecurityLabels(_, _)
AddSecurityLabels(output_data, label_headers) ==
    IF label_headers = <<>> THEN output_data
    ELSE AddSecurityLabels(add_header(output_data, "Security-Label", Head(label_headers)),
                           Tail(label_headers))

\* A single-Record branch that persists the input's labels unconditionally.
MapperSingle_always(record, output_data, output_headers, disabled) ==
    AddSecurityLabels(add_headers(output_data, output_headers),
                      get_headers(record, "Security-Label"))

\* The branch for a single Record: enrich it and persist the input's
\* Security-Label headers unless disabled or set by the map function.
MapperSingle(record, output_data, output_headers, disabled) ==
    LET enriched == add_headers(output_data, output_headers)
    IN IF ~disabled /\ ~has_header(enriched, "Security-Label") /\ has_header(record, "Security-Label")
       THEN AddSecurityLabels(enriched, get_headers(record, "Security-Label"))
       ELSE enriched

\* The branch for a list of Records: every element gets the same prepared
\* headers (one Request-Id for the whole list) and nothing else.
MapperList(record, output_data, output_headers) ==
    [j \in 1..Len(output_data) |-> add_headers(output_data[j], output_headers)]

\* uuid.uuid4() number n, as the Request-Id the engines build from it.
RequestId(n) == SinkName \o ":" \o ToString(n)

\* The records Mapper.run sends to the target for one non-None result.
MapperOutputs(record, outcome, n, disabled) ==
    LET output_headers == MapperOutputHeaders(record, RequestId(n))
    IN IF outcome.kind = "list"
       THEN MapperList(record, outcome.out, output_headers)
       ELSE <<MapperSingle(record, outcome.out[1], output_headers, disabled)>>

\* A dead-letter record with the reason put before the record's own headers.
DlqRecord_reason_first(record, dlq_reason) ==
    Record(<<Header("Dead-Letter-Reason", encode_header_value(Str(dlq_reason)))>> \o record.headers,
           record.key, record.value)

\* Action.send_dlq_record with a dlq_target: the record with the reason appended.
DlqRecord(record, dlq_reason) ==
    add_headers(record, <<Header("Dead-Letter-Reason", Str(dlq_reason))>>)

\* ------------------------------------------------------------ run() steps
NewExit == [kind |-> "none", exc |-> "", result |-> "running", raised |-> "", source_closed |-> FALSE]

Init ==
    /\ engine \in Engines
    /\ cfg \in EngineConfigs(engine)
    /\ pc = "new"
    /\ srcRead = <<>>
    /\ fnLog = <<>>
    /\ action = NewAction
    /\ target = NewSink
    /\ dlq = NewSink
    /\ errorHandler = NewErrorHandler
    /\ reporter = NewReporter(cfg.has_reporter)
    /\ uuid = 0
    /\ exit = NewExit

\* A loop that is left without going through the target's context manager.
AfterLoop_no_close(kind) ==
    IF kind = "normal" THEN "finishing"
    ELSE IF kind = "error" THEN "except" ELSE "interrupted"

\* Where control goes when the record loop is left: through the target's
\* context manager first, except in a Projector, which has none.
AfterLoop(kind) ==
    IF engine # "projector" THEN "target_close"
    ELSE IF kind = "normal" THEN "finishing"
    ELSE IF kind = "error" THEN "except" ELSE "interrupted"

\* run() up to the loop: reporter.run(), started().
RunStart ==
    /\ pc = "new"
    /\ pc' = "loop"
    /\ reporter' = reporter_run(reporter)
    /\ action' = started(action)
    /\ UNCHANGED <<engine, cfg, srcRead, fnLog, target, dlq, errorHandler, uuid, exit>>

\* The source (the adapter's generator) raises StopIteration.
SourceExhausted ==
    /\ pc = "loop"
    /\ pc' = AfterLoop("normal")
    /\ exit' = [exit EXCEPT !.kind = "normal"]
    /\ UNCHANGED <<engine, cfg, srcRead, fnLog, action, target, dlq, errorHandler, reporter, uuid>>

\* One iteration of Mapper.run's loop.
MapperStep ==
    /\ pc = "loop" /\ engine = "mapper" /\ Len(srcRead) < MaxRecords
    /\ \E record \in InputRecords(Len(srcRead) + 1) : \E o \in MapOutcomes(record) :
        LET a1 == record_read(action) IN
        /\ srcRead' = Append(srcRead, record)
        /\ fnLog' = Append(fnLog, o)
        /\ CASE o.kind = "dlq" /\ cfg.has_dlq ->
                  /\ dlq' = SinkSend(dlq, cfg.sink_kind, DlqRecord(record, o.msg))
                  /\ action' = record_processed(a1)
                  /\ UNCHANGED <<pc, exit, target, uuid>>
             [] o.kind = "dlq" /\ ~cfg.has_dlq ->
                  /\ action' = a1
                  /\ pc' = AfterLoop("error")
                  /\ exit' = [exit EXCEPT !.kind = "error", !.exc = "RuntimeError"]
                  /\ UNCHANGED <<target, dlq, uuid>>
             [] o.kind = "fatal" ->
                  /\ action' = a1
                  /\ pc' = AfterLoop("error")
                  /\ exit' = [exit EXCEPT !.kind = "error", !.exc = o.msg]
                  /\ UNCHANGED <<target, dlq, uuid>>
             [] o.kind = "interrupt" ->
                  /\ action' = a1
                  /\ pc' = AfterLoop("interrupt")
                  /\ exit' = [exit EXCEPT !.kind = "interrupt"]
                  /\ UNCHANGED <<target, dlq, uuid>>
             [] o.kind = "none" ->
                  /\ action' = record_processed(a1)
                  /\ UNCHANGED <<pc, exit, target, dlq, uuid>>
             [] o.kind \in {"single", "list"} ->
                  /\ uuid' = uuid + 1
                  /\ target' = SinkSendAll(target, cfg.sink_kind,
                                  MapperOutputs(record, o, uuid + 1, cfg.disable_persistent_headers))
                  /\ action' = record_output(record_processed(a1))
                  /\ UNCHANGED <<pc, exit, dlq>>
    /\ UNCHANGED <<engine, cfg, errorHandler, reporter>>

\* One iteration of Projector.run's loop.
ProjectorStep ==
    /\ pc = "loop" /\ engine = "projector" /\ Len(srcRead) < MaxRecords
    /\ \E record \in InputRecords(Len(srcRead) + 1) : \E o \in ProjectOutcomes :
        LET a1 == record_read(action) IN
        /\ srcRead' = Append(srcRead, record)
        /\ fnLog' = Append(fnLog, o)
        /\ CASE o.kind = "dlq" /\ cfg.has_dlq ->
                  /\ dlq' = SinkSend(dlq, cfg.sink_kind, DlqRecord(record, o.msg))
                  /\ action' = record_processed(a1)
                  /\ UNCHANGED <<pc, exit>>
             [] o.kind = "dlq" /\ ~cfg.has_dlq ->
                  /\ action' = a1
                  /\ pc' = AfterLoop("error")
                  /\ exit' = [exit EXCEPT !.kind = "error", !.exc = "RuntimeError"]
                  /\ UNCHANGED dlq
             [] o.kind = "fatal" ->
                  /\ action' = a1
                  /\ pc' = AfterLoop("error")
                  /\ exit' = [exit EXCEPT !.kind = "error", !.exc = o.msg]
                  /\ UNCHANGED dlq
             [] o.kind = "interrupt" ->
                  /\ action' = a1
                  /\ pc' = AfterLoop("interrupt")
                  /\ exit' = [exit EXCEPT !.kind = "interrupt"]
                  /\ UNCHANGED dlq
             [] o.kind = "none" ->
                  /\ action' = record_processed(a1)
                  /\ UNCHANGED <<pc, exit, dlq>>
    /\ UNCHANGED <<engine, cfg, target, errorHandler, reporter, uuid>>


\* The default headers AutomaticAdapter.run adds to every record.
AdapterRecord(record, request_id) ==
    add_headers(record,
        << Header("Exec-Path", Str(generated_id)),
           Header("Request-Id", Str(request_id)),
           Header("traceparent", Str(InjectedTraceparent)),
           Header("Data-Source-Name", Str(DataSetTitle)),
           Header("Data-Source-Type", Str(DataSetMime)) >>)

\* What the adapter function's generator may do when asked for its next
\* record: yield one, or raise.
AdaptOutcomes(i) ==
    {Outcome("yield", <<r>>, "") : r \in InputRecords(i)}
    \cup {Outcome("fatal", <<>>, "ValueError"),
          Outcome("interrupt", <<>>, "KeyboardInterrupt")}

\* One iteration of AutomaticAdapter.run's loop.
AdapterStep ==
    /\ pc = "loop" /\ engine = "adapter" /\ Len(srcRead) < MaxRecords
    /\ \E o \in AdaptOutcomes(Len(srcRead) + 1) :
        /\ fnLog' = Append(fnLog, o)
        /\ CASE o.kind = "yield" ->
                  /\ srcRead' = Append(srcRead, o.out[1])
                  /\ uuid' = uuid + 1
                  /\ target' = SinkSend(target, cfg.sink_kind,
                                        AdapterRecord(o.out[1], RequestId(uuid + 1)))
                  /\ action' = record_output(record_processed(action))
                  /\ UNCHANGED <<pc, exit>>
             [] o.kind = "fatal" ->
                  /\ pc' = AfterLoop("error")
                  /\ exit' = [exit EXCEPT !.kind = "error", !.exc = o.msg]
                  /\ UNCHANGED <<srcRead, uuid, target, action>>
             [] o.kind = "interrupt" ->
                  /\ pc' = AfterLoop("interrupt")
                  /\ exit' = [exit EXCEPT !.kind = "interrupt"]
                  /\ UNCHANGED <<srcRead, uuid, target, action>>
    /\ UNCHANGED <<engine, cfg, dlq, errorHandler, reporter>>

\* The producer's background thread delivers the oldest queued message.
Deliver ==
    /\ target.buffer # <<>>
    /\ target' = DeliverOne(target)
    /\ UNCHANGED <<engine, cfg, pc, srcRead, fnLog, action, dlq, errorHandler, reporter, uuid, exit>>

DeliverDlq ==
    /\ dlq.buffer # <<>>
    /\ dlq' = DeliverOne(dlq)
    /\ UNCHANGED <<engine, cfg, pc, srcRead, fnLog, action, target, errorHandler, reporter, uuid, exit>>

\* A close() that returns without waiting for the producer's queue to drain.
TargetClose_no_flush ==
    /\ pc = "target_close"
    /\ target' = [target EXCEPT !.closed = TRUE]
    /\ pc' = IF exit.kind = "normal" THEN "finishing"
             ELSE IF exit.kind = "error" THEN "except" ELSE "interrupted"
    /\ UNCHANGED <<engine, cfg, srcRead, fnLog, action, dlq, errorHandler, reporter, uuid, exit>>

\* `with self.target:` is left: DataSink.__exit__ calls close().  A ListSink's
\* close() does nothing; KafkaSink.close() is producer.flush(), which returns
\* once the producer's queue is empty.
TargetClose ==
    /\ pc = "target_close"
    /\ target.buffer = <<>>
    /\ target' = [target EXCEPT !.closed = TRUE]
    /\ pc' = IF exit.kind = "normal" THEN "finishing"
             ELSE IF exit.kind = "error" THEN "except" ELSE "interrupted"
    /\ UNCHANGED <<engine, cfg, srcRead, fnLog, action, dlq, errorHandler, reporter, uuid, exit>>

\* Where run() goes after finished() / aborted(): an adapter has no source to close.
AfterTerminal == IF engine = "adapter" THEN "done" ELSE "source_close"

\* self.finished() after the loop ended on StopIteration.
Finished ==
    /\ pc = "finishing"
    /\ action' = finished(action)
    /\ reporter' = stop_heartbeat(update_status(reporter, "COMPLETED"))
    /\ pc' = AfterTerminal
    /\ exit' = [exit EXCEPT !.result = IF engine = "adapter" THEN "returned" ELSE @]
    /\ UNCHANGED <<engine, cfg, srcRead, fnLog, target, dlq, errorHandler, uuid>>

\* Action.aborted's effect on the error handler: closed if there is one.
close_error_handler(h, has) == IF has THEN [h EXCEPT !.closed = TRUE] ELSE h

\* A handler that does not raise the exception again.
HandleException_swallow ==
    /\ pc = "except"
    /\ errorHandler' = close_error_handler(
                          send_exception(errorHandler, cfg.has_error_handler, exit.exc, action.counter),
                          cfg.has_error_handler)
    /\ action' = aborted([action EXCEPT !.error_count = @ + 1])
    /\ reporter' = stop_heartbeat(update_status(reporter, "ERRORING"))
    /\ pc' = AfterTerminal
    /\ exit' = [exit EXCEPT !.result = IF engine = "adapter" THEN "returned" ELSE @]
    /\ UNCHANGED <<engine, cfg, srcRead, fnLog, target, dlq, uuid>>

\* except Exception: send_exception(e), update_status(ERRORING), aborted(), raise.
HandleException ==
    /\ pc = "except"
    /\ errorHandler' = close_error_handler(
                          send_exception(errorHandler, cfg.has_error_handler, exit.exc, action.counter),
                          cfg.has_error_handler)
    /\ action' = aborted([action EXCEPT !.error_count = @ + 1])
    /\ reporter' = stop_heartbeat(update_status(reporter, "ERRORING"))
    /\ pc' = AfterTerminal
    /\ exit' = [exit EXCEPT !.raised = exit.exc,
                            !.result = IF engine = "adapter" THEN "raised" ELSE @]
    /\ UNCHANGED <<engine, cfg, srcRead, fnLog, target, dlq, uuid>>

\* except KeyboardInterrupt: update_status(TERMINATED), aborted().
HandleInterrupt ==
    /\ pc = "interrupted"
    /\ errorHandler' = close_error_handler(errorHandler, cfg.has_error_handler)
    /\ action' = aborted(action)
    /\ reporter' = stop_heartbeat(update_status(reporter, "TERMINATED"))
    /\ pc' = AfterTerminal
    /\ exit' = [exit EXCEPT !.result = IF engine = "adapter" THEN "returned" ELSE @]
    /\ UNCHANGED <<engine, cfg, srcRead, fnLog, target, dlq, uuid>>

\* `with self.source:` is left: DataSource.__exit__ calls close(); then run()
\* returns, or the exception re-raised by the handler reaches the caller.
SourceClose ==
    /\ pc = "source_close"
    /\ pc' = "done"
    /\ exit' = [exit EXCEPT !.source_closed = TRUE,
                            !.result = IF exit.raised # "" THEN "raised" ELSE "returned"]
    /\ UNCHANGED <<engine, cfg, srcRead, fnLog, action, target, dlq, errorHandler, reporter, uuid>>


\* ------------------------------------------------------------ KafkaSource
VARIABLES
    kcfg,       \* auto.offset.reset and commit_interval of the source
    kpc,        \* position of the action's read loop and of __next__
    consumer,   \* the confluent_kafka Consumer and the group's committed offsets
    source,     \* the KafkaSource's fields
    polled,     \* the local variable `record` of __next__
    current,    \* the record __next__ returned, while the action processes it
    ledger      \* bookkeeping of what was processed, seeked and rebalanced

kvars == <<kcfg, kpc, consumer, source, polled, current, ledger>>

\* The topic: two partitions of NumOffsets records each, offsets from LogStart.
Partitions == {0, 1}
LogStart == 0
LogEnd == LogStart + NumOffsets

\* poll() timed out, or last_offsets has no message for the partition.
NoMessage == [p |-> -1, o |-> -1]
Message(p, o) == [p |-> p, o |-> o]

KafkaConfigs == [reset_position : {"earliest", "beginning", "end"}, commit_interval : {1, 2}]

\* KafkaSource.__init__: a fresh source over a fresh, subscribed consumer.
NewSource ==
    [needs_seek |-> FALSE, already_seeked |-> {}, records_seen |-> 0,
     last_offsets |-> [p \in Partitions |-> NoMessage], closed |-> FALSE]

\* A new consumer of the group: nothing is assigned before the first rebalance.
NewConsumer(committed) ==
    [assignment |-> {}, position |-> [p \in Partitions |-> LogStart], committed |-> committed]

\* A commit that commits nothing.
commit_nothing(c, last_offsets) == c

\* KafkaSource.__commit_read_positions__: consumer.commit(message=m) for every
\* message of last_offsets commits offset m.offset() + 1 for its partition.
commit_read_positions(c, last_offsets) ==
    [c EXCEPT !.committed =
        [p \in Partitions |->
            IF last_offsets[p] = NoMessage THEN c.committed[p] ELSE last_offsets[p].o + 1]]

\* KafkaSource.__seek_to_beginning__ / __seek_to_end__ on the consumer: every
\* assigned partition not seeked before is positioned at the start (end) of
\* its log.  The commit of the logical offset that follows commits nothing.
seek_unseeked(c, already_seeked, offset) ==
    [c EXCEPT !.position =
        [p \in Partitions |->
            IF p \in c.assignment /\ p \notin already_seeked THEN offset ELSE c.position[p]]]

\* The messages a poll() may return: the next one of any assigned partition.
Pollable(c) == {Message(p, c.position[p]) : p \in {q \in c.assignment : c.position[q] < LogEnd}}

\* The consumer after poll() returned m.
Advance(c, m) == [c EXCEPT !.position[m.p] = m.o + 1]

NewLedger(committed) ==
    [completed |-> {m \in {Message(p, o) : p \in Partitions, o \in LogStart..(LogEnd - 1)} :
                       m.o < committed[m.p]},
     fresh |-> {}, seeks |-> [p \in Partitions |-> 0], twice |-> FALSE,
     returned |-> {}, rebalances |-> 0, restarts |-> 0,
     uncommitted |-> 0, last |-> [p \in Partitions |-> NoMessage], close_error |-> FALSE]

KafkaInit ==
    /\ kcfg \in KafkaConfigs
    /\ kpc = "top"
    /\ \E committed \in [Partitions -> LogStart..(LogStart + 1)] :
         /\ consumer = NewConsumer(committed)
         /\ ledger = NewLedger(committed)
    /\ source = NewSource
    /\ polled = NoMessage
    /\ current = [m |-> NoMessage, fresh |-> FALSE]

InPoll == kpc \in {"poll1", "poll2"}

\* An on_partitions_assigned that seeks the partitions it is given itself.
PartitionsAssigned_seeking ==
    /\ InPoll /\ ledger.rebalances < MaxRebalances
    /\ \E P \in (SUBSET Partitions) \ {{}} :
        /\ source' = [source EXCEPT !.already_seeked = @ \cup P]
        /\ consumer' = [consumer EXCEPT
                          !.assignment = @ \cup P,
                          !.position = [p \in Partitions |->
                              IF p \in P THEN LogStart ELSE consumer.position[p]]]
        /\ ledger' = [ledger EXCEPT !.rebalances = @ + 1]
    /\ UNCHANGED <<kcfg, kpc, polled, current>>

\* A rebalance hands partitions to the consumer while it polls:
\* on_partitions_assigned sets needs_seek; a partition it did not have is
\* fetched from the group's committed offset.
PartitionsAssigned ==
    /\ InPoll /\ ledger.rebalances < MaxRebalances
    /\ \E P \in (SUBSET Partitions) \ {{}} :
        /\ source' = [source EXCEPT !.needs_seek = TRUE]
        /\ consumer' = [consumer EXCEPT
                          !.assignment = @ \cup P,
                          !.position = [p \in Partitions |->
                              IF p \in P \ consumer.assignment THEN consumer.committed[p]
                              ELSE consumer.position[p]]]
        /\ ledger' = [ledger EXCEPT !.rebalances = @ + 1,
                                    !.fresh = @ \cup (P \ source.already_seeked)]
    /\ UNCHANGED <<kcfg, kpc, polled, current>>

\* A rebalance takes partitions away while the consumer polls:
\* on_partitions_revoked commits the read positions, then they are unassigned.
PartitionsRevoked ==
    /\ InPoll /\ ledger.rebalances < MaxRebalances
    /\ \E P \in (SUBSET consumer.assignment) \ {{}} :
        /\ consumer' = [commit_read_positions(consumer, source.last_offsets)
                          EXCEPT !.assignment = @ \ P]
        /\ ledger' = [ledger EXCEPT !.rebalances = @ + 1, !.fresh = @ \ P,
                                    !.returned = {m \in @ : m.p \notin P},
                                    !.uncommitted = 0]
    /\ UNCHANGED <<kcfg, kpc, source, polled, current>>

\* Top of the loop of __next__: record = None; poll only if no seek is pending.
NextTop ==
    /\ kpc = "top"
    /\ polled' = NoMessage
    /\ kpc' = IF source.needs_seek THEN "seek" ELSE "poll1"
    /\ UNCHANGED <<kcfg, consumer, source, current, ledger>>

\* record = self.consumer.poll(timeout=1.0): a message or None.
Poll1 ==
    /\ kpc = "poll1"
    /\ kpc' = "seek"
    /\ \/ /\ polled' = NoMessage
          /\ UNCHANGED consumer
       \/ \E m \in Pollable(consumer) :
          /\ polled' = m
          /\ consumer' = Advance(consumer, m)
    /\ UNCHANGED <<kcfg, source, current, ledger>>

\* if self.needs_seek: seek as the reset policy says, up to the second poll.
Seek ==
    /\ kpc = "seek"
    /\ IF source.needs_seek /\ kcfg.reset_position \in {"beginning", "end"}
       THEN LET unseeked == consumer.assignment \ source.already_seeked IN
            /\ consumer' = seek_unseeked(consumer, source.already_seeked,
                              IF kcfg.reset_position = "beginning" THEN LogStart ELSE LogEnd)
            /\ source' = [source EXCEPT !.already_seeked = @ \cup unseeked]
            /\ ledger' = [ledger EXCEPT
                            !.seeks = [p \in Partitions |->
                                IF p \in unseeked THEN ledger.seeks[p] + 1 ELSE ledger.seeks[p]]]
            /\ kpc' = "poll2"
       ELSE /\ source' = [source EXCEPT !.needs_seek = FALSE]
            /\ kpc' = "tail"
            /\ UNCHANGED <<consumer, ledger>>
    /\ UNCHANGED <<kcfg, polled, current>>

\* The fresh read after a seek, then self.needs_seek = False.
Poll2 ==
    /\ kpc = "poll2"
    /\ kpc' = "tail"
    /\ \/ /\ polled' = NoMessage
          /\ UNCHANGED consumer
       \/ \E m \in Pollable(consumer) :
          /\ polled' = m
          /\ consumer' = Advance(consumer, m)
    /\ source' = [source EXCEPT !.needs_seek = FALSE]
    /\ UNCHANGED <<kcfg, current, ledger>>

\* The rest of __next__: loop on None, else remember the message, commit every
\* commit_interval records, and return the record to the action.
NextTail ==
    /\ kpc = "tail"
    /\ IF polled = NoMessage
       THEN /\ kpc' = "top"
            /\ UNCHANGED <<consumer, source, current, ledger>>
       ELSE LET last == [source.last_offsets EXCEPT ![polled.p] = polled]
                seen == source.records_seen + 1
            IN /\ source' = [source EXCEPT !.last_offsets = last, !.records_seen = seen]
               /\ consumer' = IF seen % kcfg.commit_interval = 0
                              THEN commit_read_positions(consumer, last) ELSE consumer
               /\ current' = [m |-> polled, fresh |-> polled.p \in ledger.fresh]
               /\ ledger' = [ledger EXCEPT !.fresh = @ \ {polled.p},
                                           !.twice = @ \/ polled \in ledger.returned,
                                           !.returned = @ \cup {polled},
                                           !.last[polled.p] = polled,
                                           !.uncommitted = IF seen % kcfg.commit_interval = 0
                                                           THEN 0 ELSE @ + 1]
               /\ kpc' = "processing"
    /\ UNCHANGED <<kcfg, polled>>

\* The action's loop body on the record: the transform function returns (or
\* raises DLQException and the record is dead-lettered), and the loop goes on.
ProcessRecord ==
    /\ kpc = "processing"
    /\ ledger' = [ledger EXCEPT !.completed = @ \cup {current.m}]
    /\ kpc' = "top"
    /\ UNCHANGED <<kcfg, consumer, source, polled, current>>

\* The transform function raises: run() leaves its loop for the handler.
ProcessFails ==
    /\ kpc = "processing"
    /\ kpc' = "closing"
    /\ UNCHANGED <<kcfg, consumer, source, polled, current, ledger>>

\* `with self.source:` is left: KafkaSource.close() commits the read positions
\* and closes the consumer, which gives up its partitions.
KafkaClose ==
    /\ kpc = "closing"
    /\ consumer' = [commit_read_positions(consumer, source.last_offsets) EXCEPT !.assignment = {}]
    /\ source' = [source EXCEPT !.closed = TRUE]
    /\ ledger' = [ledger EXCEPT !.uncommitted = 0]
    /\ kpc' = "closed"
    /\ UNCHANGED <<kcfg, polled, current>>

\* close() is called once more on the closed source.  remaining() swallows
\* the consumer's errors; __commit_read_positions__ calls consumer.commit for
\* every message of last_offsets, and a closed Consumer raises RuntimeError
\* on commit; with nothing to commit, consumer.close() on a closed Consumer
\* returns or raises, depending on the confluent_kafka version.
CloseAgain ==
    /\ kpc = "closed"
    /\ kpc' = "closed_again"
    /\ \E raised \in BOOLEAN :
        /\ (\E p \in Partitions : source.last_offsets[p] # NoMessage) => raised
        /\ ledger' = [ledger EXCEPT !.close_error = raised]
    /\ UNCHANGED <<kcfg, consumer, source, polled, current>>

\* The application is started again with the same group.id.
Restart ==
    /\ kpc = "closed" /\ ledger.restarts < MaxRestarts
    /\ source' = NewSource
    /\ consumer' = NewConsumer(consumer.committed)
    /\ polled' = NoMessage
    /\ current' = [m |-> NoMessage, fresh |-> FALSE]
    /\ ledger' = [ledger EXCEPT !.restarts = @ + 1, !.fresh = {},
                                !.seeks = [p \in Partitions |-> 0], !.returned = {},
                                !.twice = FALSE, !.uncommitted = 0,
                                !.last = [p \in Partitions |-> NoMessage]]
    /\ kpc' = "top"
    /\ UNCHANGED kcfg

\* -------------------------------------------------------------- KafkaSink
VARIABLES
    ksink,      \* the KafkaSink's producer: queue (buffer), delivered messages (data), closed
    spc,        \* position of the thread that calls send() and close()
    sending,    \* the message of the send() in progress
    called,     \* the records send() has been called with, in call order
    retried     \* whether the send() in progress (or the last one) met BufferError

svars == <<ksink, spc, sending, called, retried>>

\* The records handed to send(): str and bytes header values, distinct keys.
SinkRecords(i) ==
    { Record(h, Str(ToString(i)), Str("v")) :
        h \in { <<>>, << Header("Request-Id", Str("id")), Header("Exec-Path", Bytes("path")) >> } }

SinkInit ==
    /\ ksink = NewSink
    /\ spc = "idle"
    /\ sending = KafkaMessage(Record(<<>>, Str(""), Str("")))
    /\ called = <<>>
    /\ retried = FALSE

\* send(record): headers normalised, key and value serialized.
SinkSendCall ==
    /\ spc = "idle" /\ Len(called) < MaxSends
    /\ \E record \in SinkRecords(Len(called) + 1) :
        /\ called' = Append(called, record)
        /\ sending' = KafkaMessage(record)
    /\ spc' = "produce"
    /\ retried' = FALSE
    /\ UNCHANGED ksink

\* self.target.produce(...): the message is queued, or BufferError is raised
\* when the producer's queue is full.
SinkProduce ==
    /\ spc = "produce"
    /\ IF Len(ksink.buffer) < QueueMax
       THEN /\ ksink' = [ksink EXCEPT !.buffer = Append(@, sending)]
            /\ spc' = "poll0"
            /\ UNCHANGED retried
       ELSE /\ spc' = "buffer_error"
            /\ retried' = TRUE
            /\ UNCHANGED ksink
    /\ UNCHANGED <<sending, called>>

\* self.target.poll(0); break: send() returns.
SinkPoll0 ==
    /\ spc = "poll0"
    /\ spc' = "idle"
    /\ UNCHANGED <<ksink, sending, called, retried>>

\* A handler of BufferError that gives the record up.
SinkBufferError_drop ==
    /\ spc = "buffer_error"
    /\ spc' = "idle"
    /\ UNCHANGED <<ksink, sending, called, retried>>

\* except BufferError: self.target.poll(1), then the loop tries produce again.
SinkBufferError ==
    /\ spc = "buffer_error"
    /\ spc' = "produce"
    /\ UNCHANGED <<ksink, sending, called, retried>>

\* The producer's background thread delivers the oldest queued message.
SinkDeliver ==
    /\ ksink.buffer # <<>>
    /\ ksink' = DeliverOne(ksink)
    /\ UNCHANGED <<spc, sending, called, retried>>

\* close() is called: self.target.flush() begins.
SinkCloseCall ==
    /\ spc = "idle"
    /\ spc' = "flushing"
    /\ UNCHANGED <<ksink, sending, called, retried>>

\* A flush() that returns while messages are still queued.
SinkFlush_no_wait ==
    /\ spc = "flushing"
    /\ ksink' = [ksink EXCEPT !.closed = TRUE]
    /\ spc' = "closed"
    /\ UNCHANGED <<sending, called, retried>>

\* flush() returns once every queued message has been delivered; close() returns.
SinkFlush ==
    /\ spc = "flushing"
    /\ ksink.buffer = <<>>
    /\ ksink' = [ksink EXCEPT !.closed = TRUE]
    /\ spc' = "closed"
    /\ UNCHANGED <<sending, called, retried>>

\* ------------------------------------------------------ Action lifecycle
\* The lifecycle methods of an Action called directly, in any order.
VARIABLES
    api,        \* the Action's counters and timers
    apiLast,    \* the last call: method, whether it raised, the Action before it
    lifecycle,  \* "new", or the last lifecycle method that returned
    apiCalls    \* number of calls so far

avars == <<api, apiLast, lifecycle, apiCalls>>

Returned(a) == [a |-> a, raised |-> FALSE]
Raised(a) == [a |-> a, raised |-> TRUE]

\* A started() without its checks.
call_started_unchecked(a) == Returned(started(a))

\* Action.started: raises when a timer is set.
call_started(a) ==
    IF a.batch_timer # "None" \/ a.total_timer # "None" THEN Raised(a)
    ELSE Returned(started(a))

\* Action.finished: raises when batch_timer is None.
call_finished(a) ==
    IF a.batch_timer = "None" THEN Raised(a) ELSE Returned(finished(a))

\* A report_progress that does not look at last_report_at.
call_report_progress_again(a) ==
    IF a.batch_timer = "None"
    THEN Raised([a EXCEPT !.last_report_at = a.counter,
                          !.next_batch_boundary = @ + ReportingBatchSize])
    ELSE Returned([a EXCEPT !.last_report_at = a.counter,
                            !.next_batch_boundary = @ + ReportingBatchSize,
                            !.reports = Append(@, [at |-> a.counter, last |-> a.counter - a.last_report_at]),
                            !.batch_timer = "set"])

\* Action.report_progress called directly: with batch_timer None the format
\* of the elapsed time raises TypeError, after last_report_at and
\* next_batch_boundary were updated.
call_report_progress(a) ==
    IF a.last_report_at = a.counter THEN Returned(a)
    ELSE IF a.batch_timer = "None"
         THEN Raised([a EXCEPT !.last_report_at = a.counter,
                               !.next_batch_boundary = @ + ReportingBatchSize])
         ELSE Returned(report_progress(a))

\* Action.record_processed called directly.
call_record_processed(a) ==
    LET b == [a EXCEPT !.counter = @ + 1, !.records_processed_counter = @ + 1]
    IN IF (ReportingBatchSize > 0 /\ b.counter % ReportingBatchSize = 0)
          \/ b.counter > b.next_batch_boundary
       THEN call_report_progress(b) ELSE Returned(b)

\* Action.aborted called directly: on an Action whose total_timer is None the
\* format of the elapsed time raises TypeError.
call_aborted(a) ==
    LET r == IF a.counter % ReportingBatchSize # 0 THEN call_report_progress(a) ELSE Returned(a)
    IN IF r.raised THEN r
       ELSE IF r.a.total_timer = "None" THEN Raised(r.a)
       ELSE Returned([r.a EXCEPT !.summary = "Aborted"])

ApiInit ==
    /\ api = NewAction
    /\ apiLast = [op |-> "none", raised |-> FALSE, before |-> NewAction, was |-> "new"]
    /\ lifecycle = "new"
    /\ apiCalls = 0

\* One call, its outcome r, and the lifecycle state it leaves when it returns.
ApiCall(op, r, then) ==
    /\ apiCalls < MaxCalls
    /\ apiCalls' = apiCalls + 1
    /\ api' = r.a
    /\ apiLast' = [op |-> op, raised |-> r.raised, before |-> api, was |-> lifecycle]
    /\ lifecycle' = IF r.raised THEN lifecycle ELSE then

ApiStarted == ApiCall("started", call_started(api), "started")
ApiFinished == ApiCall("finished", call_finished(api), "finished")
ApiAborted == ApiCall("aborted", call_aborted(api), "aborted")
ApiRecordProcessed == ApiCall("record_processed", call_record_processed(api), lifecycle)

ApiIdle ==
    /\ api = NewAction
    /\ apiLast = [op |-> "none", raised |-> FALSE, before |-> NewAction, was |-> "new"]
    /\ lifecycle = "unused"
    /\ apiCalls = 0

ApiNext == ApiStarted \/ ApiFinished \/ ApiAborted \/ ApiRecordProcessed

\* ------------------------------------------------------ Action progress
\* The progress methods of an Action (record_processed, records_processed,
\* report_progress) called in a run, between started() and finished() or
\* aborted(); the lifecycle methods are called in any order.
VARIABLES
    run   \* what the calls so far say about the current run:
          \*   start   number of progress reports printed before the last started()
          \*   direct  report_progress() was called directly since the last started()
          \*   stable  report_progress() was called and the counter has kept its value since
          \*   again   the last call was a report_progress() made while stable

pvars == <<run>>

NewRun == [start |-> 0, direct |-> FALSE, stable |-> FALSE, again |-> FALSE]

\* Action.records_processed called directly.
call_records_processed(a, count) ==
    LET b == [a EXCEPT !.counter = @ + count]
    IN IF (ReportingBatchSize > 0 /\ b.counter % ReportingBatchSize = 0)
          \/ b.counter > b.next_batch_boundary
       THEN call_report_progress(b) ELSE Returned(b)

ProgressInit == ApiInit /\ run = NewRun

\* One call of a method of the Action, and what it means for the run.
ProgressCall(op, r, then) ==
    /\ ApiCall(op, r, then)
    /\ run' = [start  |-> IF op = "started" /\ ~r.raised THEN Len(api.reports) ELSE run.start,
               direct |-> IF op = "started" /\ ~r.raised THEN FALSE
                          ELSE run.direct \/ op = "report_progress",
               stable |-> IF op = "report_progress" THEN TRUE
                          ELSE run.stable /\ r.a.counter = api.counter,
               again  |-> op = "report_progress" /\ run.stable]

ProgressStarted == ProgressCall("started", call_started(api), "started")
ProgressFinished == ProgressCall("finished", call_finished(api), "finished")
ProgressAborted == ProgressCall("aborted", call_aborted(api), "aborted")
ProgressRecordProcessed ==
    /\ lifecycle = "started"
    /\ ProgressCall("record_processed", call_record_processed(api), lifecycle)
ProgressRecordsProcessed ==
    /\ lifecycle = "started"
    /\ \E count \in 0..MaxBatch :
          ProgressCall("records_processed", call_records_processed(api, count), lifecycle)
ProgressReportProgress ==
    /\ lifecycle = "started"
    /\ ProgressCall("report_progress", call_report_progress(api), lifecycle)

ProgressIdle == run = NewRun

ProgressNext ==
    \/ ProgressStarted \/ ProgressFinished \/ ProgressAborted
    \/ ProgressRecordProcessed \/ ProgressRecordsProcessed \/ ProgressReportProgress

\* ------------------------------------------------------ Reporter threads
\* A Reporter used by a main thread (construct, run, set_status,
\* stop_heartbeat) next to the heartbeat thread that run() starts.
VARIABLES
    status,          \* self.status
    task_cancelled,  \* self.task_cancelled
    heartbeat_wait,  \* self.heartbeat_wait: TRUE when the Event is set
    rsink,           \* self.sink: the records written and whether it is closed
    mainpc,          \* position of the main thread
    thread,          \* position of the heartbeat thread
    details,         \* the status the heartbeat thread read in get_details
    chosen,          \* the status of the last set_status call, "none" before
    timeouts         \* waits of the heartbeat thread that timed out

rvars == <<status, task_cancelled, heartbeat_wait, rsink, mainpc, thread, details, chosen, timeouts>>

Statuses == {"COMPLETED", "TERMINATED", "ERRORING"}

\* A heartbeat or registration record as written to the reporter's sink.
Heartbeat(st, by) ==
    [status |-> st, by |-> by, after_cancel |-> task_cancelled, after_close |-> rsink.closed]

\* Reporter.__init__, which ends with register().
ReporterInit ==
    /\ status = "STARTED"
    /\ task_cancelled = FALSE
    /\ heartbeat_wait = FALSE
    /\ rsink = [data |-> <<[status |-> "STARTED", by |-> "main",
                            after_cancel |-> FALSE, after_close |-> FALSE]>>,
                closed |-> FALSE]
    /\ mainpc = "constructed"
    /\ thread = "none"
    /\ details = "none"
    /\ chosen = "none"
    /\ timeouts = 0

\* Reporter.run: the thread is started.
Run ==
    /\ mainpc = "constructed"
    /\ mainpc' = "running"
    /\ thread' = "begin"
    /\ UNCHANGED <<status, task_cancelled, heartbeat_wait, rsink, details, chosen, timeouts>>

\* Reporter.set_status(S).
SetStatus ==
    /\ mainpc = "running"
    /\ \E st \in Statuses : status' = st /\ chosen' = st
    /\ UNCHANGED <<task_cancelled, heartbeat_wait, rsink, mainpc, thread, details, timeouts>>

\* stop_heartbeat: self.task_cancelled = True.
StopCancel ==
    /\ mainpc = "running"
    /\ mainpc' = "stop_signal"
    /\ task_cancelled' = TRUE
    /\ UNCHANGED <<status, heartbeat_wait, rsink, thread, details, chosen, timeouts>>

\* stop_heartbeat: self.heartbeat_wait.set(), then the same two statements
\* again at the top of __unregister__.
StopSignal ==
    /\ mainpc = "stop_signal"
    /\ mainpc' = "final_heartbeat"
    /\ heartbeat_wait' = TRUE
    /\ UNCHANGED <<status, task_cancelled, rsink, thread, details, chosen, timeouts>>

\* __unregister__: send_heartbeat() on the main thread.
FinalHeartbeat ==
    /\ mainpc = "final_heartbeat"
    /\ mainpc' = "join"
    /\ rsink' = [rsink EXCEPT !.data = Append(@, Heartbeat(status, "main"))]
    /\ UNCHANGED <<status, task_cancelled, heartbeat_wait, thread, details, chosen, timeouts>>

\* A join that returns whether or not the thread has ended.
Join_no_wait ==
    /\ mainpc = "join"
    /\ mainpc' = "close"
    /\ UNCHANGED <<status, task_cancelled, heartbeat_wait, rsink, thread, details, chosen, timeouts>>

\* __unregister__: self.thread.join() returns once the thread has ended.
Join ==
    /\ mainpc = "join"
    /\ thread = "ended"
    /\ mainpc' = "close"
    /\ UNCHANGED <<status, task_cancelled, heartbeat_wait, rsink, thread, details, chosen, timeouts>>

\* __unregister__: self.sink.close(), then finished() and the return of
\* stop_heartbeat.
CloseSink ==
    /\ mainpc = "close"
    /\ mainpc' = "stopped"
    /\ rsink' = [rsink EXCEPT !.closed = TRUE]
    /\ UNCHANGED <<status, task_cancelled, heartbeat_wait, thread, details, chosen, timeouts>>

\* start_heartbeat: self.status = Status.RUNNING.
ThreadBegin ==
    /\ thread = "begin"
    /\ thread' = "check"
    /\ status' = "RUNNING"
    /\ UNCHANGED <<task_cancelled, heartbeat_wait, rsink, mainpc, details, chosen, timeouts>>

\* start_heartbeat: while not self.task_cancelled.
ThreadCheck ==
    /\ thread = "check"
    /\ thread' = IF task_cancelled THEN "ended" ELSE "get_details"
    /\ UNCHANGED <<status, task_cancelled, heartbeat_wait, rsink, mainpc, details, chosen, timeouts>>

\* send_heartbeat on the thread: get_details reads self.status.
ThreadGetDetails ==
    /\ thread = "get_details"
    /\ thread' = "send"
    /\ details' = status
    /\ UNCHANGED <<status, task_cancelled, heartbeat_wait, rsink, mainpc, chosen, timeouts>>

\* send_heartbeat on the thread: self.sink.send of the record built.
ThreadSend ==
    /\ thread = "send"
    /\ thread' = "wait"
    /\ rsink' = [rsink EXCEPT !.data = Append(@, Heartbeat(details, "thread"))]
    /\ details' = "none"
    /\ UNCHANGED <<status, task_cancelled, heartbeat_wait, mainpc, chosen, timeouts>>

\* A wait that does not look at the Event (time.sleep): it stays asleep.
Wait_sleep ==
    /\ thread = "wait"
    /\ heartbeat_wait
    /\ UNCHANGED rvars

\* heartbeat_wait.wait(heartbeat_time) returns because the Event is set.
WaitWake ==
    /\ thread = "wait"
    /\ heartbeat_wait
    /\ thread' = "check"
    /\ UNCHANGED <<status, task_cancelled, heartbeat_wait, rsink, mainpc, details, chosen, timeouts>>

\* heartbeat_wait.wait(heartbeat_time) returns because heartbeat_time passed.
WaitTimeout ==
    /\ thread = "wait"
    /\ ~heartbeat_wait
    /\ timeouts < MaxTimeouts
    /\ timeouts' = timeouts + 1
    /\ thread' = "check"
    /\ UNCHANGED <<status, task_cancelled, heartbeat_wait, rsink, mainpc, details, chosen>>

ReporterIdle ==
    /\ status = "STARTED"
    /\ task_cancelled = FALSE
    /\ heartbeat_wait = FALSE
    /\ rsink = [data |-> <<>>, closed |-> FALSE]
    /\ mainpc = "unused"
    /\ thread = "none"
    /\ details = "none"
    /\ chosen = "none"
    /\ timeouts = 0

ReporterNext ==
    \/ Run \/ SetStatus \/ StopCancel \/ StopSignal \/ FinalHeartbeat \/ Join \/ CloseSink
    \/ ThreadBegin \/ ThreadCheck \/ ThreadGetDetails \/ ThreadSend \/ WaitWake \/ WaitTimeout

\* ---------------------------------------------------- RecordUtils calls
\* One call of a RecordUtils function on a Record, and what its caller can do
\* with the result afterwards.  A Record is a namedtuple (immutable); its
\* headers are None or a reference to a Python list, which is mutable.
VARIABLES
    lists,    \* the list objects that exist, by address 1..Len(lists)
    input,    \* the Record handed to the call; headers is an address, 0 for None
    before,   \* the contents of the input's header list when the call was made
    call,     \* the call made: function and arguments
    output,   \* the Record the call returned
    ustep     \* "input", "returned", "changed"

uvars == <<lists, input, before, call, output, ustep>>

HeaderKeys == {"Test", "test", "Other-Header"}
HeaderValues == {Str("12345"), Bytes("12345"), Str("6789")}
Headers == {Header(k, v) : k \in HeaderKeys, v \in HeaderValues}
HeaderLists(n) == UNION {[1..m -> Headers] : m \in 0..n}

\* The Record value a reference Record stands for; None headers read as empty.
Deref(r) == Record(IF r.headers = 0 THEN <<>> ELSE lists[r.headers], r.key, r.value)

NoCall == [fn |-> "none", k |-> "", v |-> None, hs |-> <<>>]

UtilsInit ==
    /\ \E hs \in HeaderLists(MaxHeaders) :
          \/ lists = <<hs>> /\ input = Record(1, "key", "value")
          \/ hs = <<>> /\ lists = <<>> /\ input = Record(0, "key", "value")
    /\ before = <<>>
    /\ call = NoCall
    /\ output = input
    /\ ustep = "input"

\* The function returns a Record built on a list it allocated (new_headers).
ReturnNew(c, r) ==
    /\ lists' = Append(lists, r.headers)
    /\ output' = Record(Len(lists) + 1, r.key, r.value)
    /\ before' = Deref(input).headers
    /\ call' = c
    /\ ustep' = "returned"
    /\ UNCHANGED input

\* The function returns the Record it was given (`return record`).
ReturnSame(c) ==
    /\ output' = input
    /\ before' = Deref(input).headers
    /\ call' = c
    /\ ustep' = "returned"
    /\ UNCHANGED <<lists, input>>

CallAddHeader ==
    /\ ustep = "input"
    /\ \E k \in HeaderKeys, v \in HeaderValues \cup {None} :
          ReturnNew([NoCall EXCEPT !.fn = "add_header", !.k = k, !.v = v],
                    add_header(Deref(input), k, v))

CallAddHeaders ==
    /\ ustep = "input"
    /\ \E hs \in HeaderLists(MaxAdded) :
          LET c == [NoCall EXCEPT !.fn = "add_headers", !.hs = hs]
          IN IF Len(hs) = 0 THEN ReturnSame(c)
             ELSE ReturnNew(c, add_headers(Deref(input), hs))

CallReplaceOrAddHeader ==
    /\ ustep = "input"
    /\ \E k \in HeaderKeys, v \in HeaderValues \cup {None} :
          ReturnNew([NoCall EXCEPT !.fn = "replace_or_add_header", !.k = k, !.v = v],
                    replace_or_add_header(Deref(input), k, v))

CallRemoveHeader ==
    /\ ustep = "input"
    /\ \E k \in HeaderKeys, v \in HeaderValues \cup {None} :
          LET c == [NoCall EXCEPT !.fn = "remove_header", !.k = k, !.v = v]
          IN IF input.headers = 0 THEN ReturnSame(c)
             ELSE ReturnNew(c, remove_header(Deref(input), k, v))

\* The caller appends to the headers of the Record it got back.
ChangeOutput ==
    /\ ustep = "returned"
    /\ output.headers # 0
    /\ ustep' = "changed"
    /\ lists' = [lists EXCEPT ![output.headers] = Append(@, Header("New-Header", Bytes("x")))]
    /\ UNCHANGED <<input, before, call, output>>

UtilsIdle ==
    /\ lists = <<>>
    /\ input = Record(0, "key", "value")
    /\ before = <<>>
    /\ call = NoCall
    /\ output = input
    /\ ustep = "unused"

UtilsNext ==
    \/ CallAddHeader \/ CallAddHeaders \/ CallReplaceOrAddHeader \/ CallRemoveHeader
    \/ ChangeOutput

\* ------------------------------------------------- SecurityLabelBuilder
\* A str is a sequence of tokens: "(", ")", "|", "&", "=", " " and words
\* that hold none of them.
VARIABLES
    builder,   \* labels, or_expressions and used_labels of a SecurityLabelBuilder
    built,     \* what the last call returned (build) or raised (add_or_expression)
    bop        \* the last call

bvars == <<builder, built, bop>>

\* str.strip(): leading and trailing blanks removed.
RECURSIVE lstrip(_)
lstrip(s) == IF s # <<>> /\ Head(s) = " " THEN lstrip(Tail(s)) ELSE s
RECURSIVE rstrip(_)
rstrip(s) == IF s # <<>> /\ s[Len(s)] = " " THEN rstrip(SubSeq(s, 1, Len(s) - 1)) ELSE s
strip(s) == rstrip(lstrip(s))

\* sep.join(xs)
RECURSIVE join(_, _)
join(sep, xs) ==
    IF Len(xs) = 0 THEN <<>>
    ELSE IF Len(xs) = 1 THEN xs[1]
    ELSE xs[1] \o sep \o join(sep, Tail(xs))

\* Label.create_label: f"{name}={value}"
create_label(name, value) == <<name, "=", value>>

\* SingleValueLabel.construct with one value.
SingleValueLabel_construct(name, value) == create_label(name, value)

\* MultiValueLabel.construct: the labels of the values joined by "|", in brackets.
MultiValueLabel_construct(name, values) ==
    <<"(">> \o join(<<"|">>, [i \in 1..Len(values) |-> create_label(name, values[i])]) \o <<")">>

NewBuilder == [labels |-> <<>>, or_expressions |-> <<>>, used_labels |-> <<>>]

\* The first lines of add and add_multiple: the label's name is remembered once.
use_label(b, name) ==
    IF \E i \in 1..Len(b.used_labels) : b.used_labels[i] = name THEN b
    ELSE [b EXCEPT !.used_labels = Append(@, name)]

\* SecurityLabelBuilder.add / add_multiple with the constructed label.
add(b, name, constructed) == [use_label(b, name) EXCEPT !.labels = Append(@, constructed)]

\* SecurityLabelBuilder.add_or_expression: whether it raises ValueError.
or_expression_invalid(expression) ==
    LET trimmed == strip(expression)
    IN Len(trimmed) < 2 \/ trimmed[1] # "(" \/ trimmed[Len(trimmed)] # ")"

\* SecurityLabelBuilder.add_or_expression on a valid expression.
add_or_expression(b, expression) ==
    [b EXCEPT !.or_expressions = Append(@, strip(expression))]

\* A build that writes the bracketed group also when there are no labels.
build_always_group(b) ==
    LET expression == join(<<"&">>, b.labels)
        close_expression == IF Len(b.or_expressions) = 0 THEN <<")">> ELSE <<")", "|">>
    IN <<"(">> \o expression \o close_expression \o join(<<"|">>, b.or_expressions)

\* SecurityLabelBuilder.build
build(b) ==
    LET expression == join(<<"&">>, b.labels)
        close_expression == IF Len(b.or_expressions) = 0 THEN <<")">> ELSE <<")", "|">>
        base_expression == IF Len(strip(expression)) = 0 THEN <<>>
                           ELSE <<"(">> \o expression \o close_expression
        ors == join(<<"|">>, b.or_expressions)
    IN base_expression \o ors

\* The labels and values of the builder's callers: one single-valued and one
\* multi-valued label, and expressions with and without brackets and blanks.
LabelValues == {"S", "O"}
ValueLists(n) == UNION {[1..m -> {"telicent", "nhs"}] : m \in 1..n}
OrExpressions ==
    {<<"(", "classification", "=", "O", ")">>,
     <<" ", "(", "nhs", ")", " ">>,
     <<"classification", "=", "O">>,
     <<" ", ")">>,
     <<>>}

NotBuilt == [kind |-> "none", text |-> <<>>]

BuilderInit ==
    /\ builder = NewBuilder
    /\ built = NotBuilt
    /\ bop = "init"

Add ==
    /\ Len(builder.labels) < MaxLabels
    /\ \E value \in LabelValues :
          builder' = add(builder, "classification",
                         SingleValueLabel_construct("classification", value))
    /\ built' = NotBuilt
    /\ bop' = "add"

AddMultiple ==
    /\ Len(builder.labels) < MaxLabels
    /\ \E values \in ValueLists(MaxValues) :
          builder' = add(builder, "permitted_organisations",
                         MultiValueLabel_construct("permitted_organisations", values))
    /\ built' = NotBuilt
    /\ bop' = "add_multiple"

AddOrExpression ==
    /\ Len(builder.or_expressions) < MaxOrs
    /\ \E expression \in OrExpressions :
          IF or_expression_invalid(expression)
          THEN /\ built' = [kind |-> "ValueError", text |-> <<>>]
               /\ UNCHANGED builder
          ELSE /\ built' = NotBuilt
               /\ builder' = add_or_expression(builder, expression)
    /\ bop' = "add_or_expression"

Build ==
    /\ built' = [kind |-> "str", text |-> build(builder)]
    /\ bop' = "build"
    /\ UNCHANGED builder

BuilderIdle ==
    /\ builder = NewBuilder
    /\ built = NotBuilt
    /\ bop = "unused"

BuilderNext == Add \/ AddMultiple \/ AddOrExpression \/ Build

\* ---------------------------------------------------------- manual Adapter
\* An Adapter driven by its caller: run(), send() for each record, then
\* finished() or aborted(), over a target sink that may deliver later.
VARIABLES
    adapter,   \* the Adapter: its Action counters, target, data catalogue sink
    dkind,     \* "list" or "kafka": the kind of target sink
    dcalls,    \* the records send() was called with, in call order
    dstep,     \* "ready", "finished_close", "aborted_close", "finished", "aborted"
    draised    \* whether the last call raised

dvars == <<adapter, dkind, dcalls, dstep, draised>>

AdapterInit ==
    /\ dkind \in {"list", "kafka"}
    /\ adapter = [action |-> NewAction, target |-> NewSink, catalog_closed |-> FALSE]
    /\ dcalls = <<>>
    /\ dstep = "ready"
    /\ draised = FALSE

\* Adapter.run: started().
AdapterRun ==
    /\ dstep = "ready"
    /\ LET r == call_started(adapter.action)
       IN adapter' = [adapter EXCEPT !.action = r.a] /\ draised' = r.raised
    /\ UNCHANGED <<dkind, dcalls, dstep>>

\* OutputAction.send: target.send(record), then record_processed().
AdapterSend ==
    /\ dstep = "ready"
    /\ Len(dcalls) < MaxSends
    /\ \E record \in SinkRecords(Len(dcalls)) :
          LET r == call_record_processed(adapter.action)
          IN /\ adapter' = [adapter EXCEPT !.target = SinkSend(@, dkind, record),
                                           !.action = r.a]
             /\ draised' = r.raised
             /\ dcalls' = Append(dcalls, record)
    /\ UNCHANGED <<dkind, dstep>>

\* The target delivers the oldest record it holds.
AdapterDeliver ==
    /\ adapter.target.buffer # <<>>
    /\ adapter' = [adapter EXCEPT !.target = DeliverOne(@)]
    /\ UNCHANGED <<dkind, dcalls, dstep, draised>>

\* Adapter.finished() / Adapter.aborted() is called: its first statement,
\* self.target.close(), begins.
AdapterTerminalCall ==
    /\ dstep = "ready"
    /\ dstep' \in {"finished_close", "aborted_close"}
    /\ UNCHANGED <<adapter, dkind, dcalls, draised>>

\* A terminal operation that goes on without closing the target.
AdapterTerminal_no_close ==
    /\ dstep \in {"finished_close", "aborted_close"}
    /\ LET r == IF dstep = "finished_close" THEN call_finished(adapter.action)
                ELSE call_aborted(adapter.action)
       IN /\ adapter' = [adapter EXCEPT !.catalog_closed = TRUE, !.action = r.a]
          /\ draised' = r.raised
    /\ dstep' = IF dstep = "finished_close" THEN "finished" ELSE "aborted"
    /\ UNCHANGED <<dkind, dcalls>>

\* self.target.close() returns (for a KafkaSink, once the producer's queue is
\* empty), then BaseAdapter closes the data catalogue sink and Action's
\* finished() / aborted() runs.
AdapterTerminal ==
    /\ dstep \in {"finished_close", "aborted_close"}
    /\ adapter.target.buffer = <<>>
    /\ LET r == IF dstep = "finished_close" THEN call_finished(adapter.action)
                ELSE call_aborted(adapter.action)
       IN /\ adapter' = [adapter EXCEPT !.target.closed = TRUE, !.catalog_closed = TRUE,
                                        !.action = r.a]
          /\ draised' = r.raised
    /\ dstep' = IF dstep = "finished_close" THEN "finished" ELSE "aborted"
    /\ UNCHANGED <<dkind, dcalls>>

AdapterIdle ==
    /\ dkind = "list"
    /\ adapter = [action |-> NewAction, target |-> NewSink, catalog_closed |-> FALSE]
    /\ dcalls = <<>>
    /\ dstep = "unused"
    /\ draised = FALSE

AdapterNext ==
    AdapterRun \/ AdapterSend \/ AdapterDeliver \/ AdapterTerminalCall \/ AdapterTerminal

\* ------------------------------------------------- KafkaSource.remaining
\* remaining() called between the polls of a consumer that holds both
\* partitions of a topic to which nothing is added.
VARIABLES
    lag,       \* the consumer: high watermarks, fetch positions, partitions consumed from
    last_known_remaining,   \* self.last_known_remaining
    lcall,     \* the last call of remaining(): how it went and what it returned
    lprev,     \* what the call of remaining() before that returned
    lgood,     \* the value of the last computation that met no error
    lfailed    \* whether any computation so far met an error

lvars == <<lag, last_known_remaining, lcall, lprev, lgood, lfailed>>

\* None where an int is expected.
Unknown == -1
\* confluent_kafka's OFFSET_INVALID: the offset position() reports for a
\* partition from which this consumer has consumed no message yet.
OFFSET_INVALID == -1001

\* consumer.assignment(), in the order remaining() walks it.
Assigned == <<0, 1>>

\* consumer.position([partition])[0].offset
position(c, p) == IF p \in c.consumed THEN c.next[p] ELSE OFFSET_INVALID

\* The loop of remaining() over the first n assigned partitions: high minus
\* position, added up.
RECURSIVE remaining_loop(_, _)
remaining_loop(c, n) ==
    IF n = 0 THEN 0
    ELSE remaining_loop(c, n - 1) + (c.high[Assigned[n]] - position(c, Assigned[n]))

\* The local `remaining` at the end of the try block: the consumer raises
\* while partition number fail_at is handled (0: it does not raise).
remaining_fresh(c, fail_at) ==
    LET n == IF fail_at = 0 THEN Len(Assigned) ELSE fail_at - 1
    IN IF n = 0 THEN Unknown ELSE remaining_loop(c, n)

LagInit ==
    /\ \E high \in [Partitions -> 0..NumOffsets] :
         \E next \in [Partitions -> 0..NumOffsets] :
            /\ \A p \in Partitions : next[p] <= high[p]
            /\ lag = [high |-> high, next |-> next, consumed |-> {}]
    /\ last_known_remaining = Unknown
    /\ lcall = [kind |-> "none", result |-> Unknown]
    /\ lprev = Unknown
    /\ lgood = Unknown
    /\ lfailed = FALSE

\* consumer.poll returns the next message of a partition.
LagPoll ==
    /\ \E p \in Partitions :
         /\ lag.next[p] < lag.high[p]
         /\ lag' = [lag EXCEPT !.next[p] = @ + 1, !.consumed = @ \cup {p}]
    /\ UNCHANGED <<last_known_remaining, lcall, lprev, lgood, lfailed>>

\* KafkaSource.remaining(): a fresh value is cached and returned, without one
\* the cached value is returned.
Remaining ==
    /\ \E fail_at \in 0..Len(Assigned) :
         LET fresh == remaining_fresh(lag, fail_at)
             result == IF fresh = Unknown THEN last_known_remaining ELSE fresh
         IN /\ last_known_remaining' = result
            /\ lcall' = [kind |-> IF fail_at = 0 THEN "ok" ELSE "failed", result |-> result]
            /\ lgood' = IF fail_at = 0 THEN result ELSE lgood
            /\ lfailed' = (lfailed \/ fail_at # 0)
    /\ lprev' = lcall.result
    /\ UNCHANGED lag

LagIdle ==
    /\ lag = [high |-> [p \in Partitions |-> 0], next |-> [p \in Partitions |-> 0], consumed |-> {}]
    /\ last_known_remaining = Unknown
    /\ lcall = [kind |-> "unused", result |-> Unknown]
    /\ lprev = Unknown
    /\ lgood = Unknown
    /\ lfailed = FALSE

LagNext == LagPoll \/ Remaining

\* ---------------------------------------------------------- specifications
\* The variables of the part a specification does not exercise.
EngineIdle ==
    /\ engine = "mapper"
    /\ cfg = DefaultConfig
    /\ pc = "idle"
    /\ srcRead = <<>> /\ fnLog = <<>> /\ action = NewAction
    /\ target = NewSink /\ dlq = NewSink /\ errorHandler = NewErrorHandler
    /\ reporter = NewReporter(TRUE) /\ uuid = 0 /\ exit = NewExit

KafkaIdle ==
    /\ kcfg = [reset_position |-> "earliest", commit_interval |-> 1]
    /\ kpc = "idle"
    /\ consumer = NewConsumer([p \in Partitions |-> LogStart])
    /\ ledger = NewLedger([p \in Partitions |-> LogStart])
    /\ source = NewSource
    /\ polled = NoMessage
    /\ current = [m |-> NoMessage, fresh |-> FALSE]

SinkIdle ==
    /\ ksink = NewSink
    /\ spc = "unused"
    /\ sending = KafkaMessage(Record(<<>>, Str(""), Str("")))
    /\ called = <<>>
    /\ retried = FALSE

SinkNext ==
    \/ SinkSendCall \/ SinkProduce \/ SinkPoll0 \/ SinkBufferError
    \/ SinkDeliver \/ SinkCloseCall \/ SinkFlush

EngineNext ==
    \/ RunStart \/ SourceExhausted \/ MapperStep \/ ProjectorStep \/ AdapterStep
    \/ Deliver \/ DeliverDlq \/ TargetClose
    \/ Finished \/ HandleException \/ HandleInterrupt \/ SourceClose

KafkaNext ==
    \/ PartitionsAssigned \/ PartitionsRevoked
    \/ NextTop \/ Poll1 \/ Seek \/ Poll2 \/ NextTail
    \/ ProcessRecord \/ ProcessFails \/ KafkaClose \/ CloseAgain \/ Restart

vars == <<evars, kvars, svars, avars, rvars, uvars, bvars, dvars, lvars, pvars>>

EngineSpecInit == Init /\ KafkaIdle /\ SinkIdle /\ ApiIdle /\ ReporterIdle /\ UtilsIdle /\ BuilderIdle /\ AdapterIdle /\ LagIdle /\ ProgressIdle
SpecNext == EngineNext /\ UNCHANGED <<kvars, svars, avars, rvars, uvars, bvars, dvars, lvars, pvars>>
Spec == EngineSpecInit /\ [][SpecNext]_vars

KafkaSpecInit == KafkaInit /\ EngineIdle /\ SinkIdle /\ ApiIdle /\ ReporterIdle /\ UtilsIdle /\ BuilderIdle /\ AdapterIdle /\ LagIdle /\ ProgressIdle
KafkaSpecNext == KafkaNext /\ UNCHANGED <<evars, svars, avars, rvars, uvars, bvars, dvars, lvars, pvars>>
SpecKafka == KafkaSpecInit /\ [][KafkaSpecNext]_vars

\* The thread that called send() keeps running, and the producer's background
\* thread keeps delivering what is queued (the buffer eventually frees space).
SinkSpecInit == SinkInit /\ EngineIdle /\ KafkaIdle /\ ApiIdle /\ ReporterIdle /\ UtilsIdle /\ BuilderIdle /\ AdapterIdle /\ LagIdle /\ ProgressIdle
SinkSpecNext == SinkNext /\ UNCHANGED <<evars, kvars, avars, rvars, uvars, bvars, dvars, lvars, pvars>>
SinkFairness ==
    /\ WF_vars(SinkProduce /\ UNCHANGED <<evars, kvars, avars, rvars, uvars, bvars, dvars, lvars, pvars>>)
    /\ WF_vars(SinkPoll0 /\ UNCHANGED <<evars, kvars, avars, rvars, uvars, bvars, dvars, lvars, pvars>>)
    /\ WF_vars(SinkBufferError /\ UNCHANGED <<evars, kvars, avars, rvars, uvars, bvars, dvars, lvars, pvars>>)
    /\ WF_vars(SinkDeliver /\ UNCHANGED <<evars, kvars, avars, rvars, uvars, bvars, dvars, lvars, pvars>>)
SpecSink == SinkSpecInit /\ [][SinkSpecNext]_vars /\ SinkFairness

ApiSpecInit == ApiInit /\ EngineIdle /\ KafkaIdle /\ SinkIdle /\ ReporterIdle /\ UtilsIdle /\ BuilderIdle /\ AdapterIdle /\ LagIdle /\ ProgressIdle
ApiSpecNext == ApiNext /\ UNCHANGED <<evars, kvars, svars, rvars, uvars, bvars, dvars, lvars, pvars>>
SpecAction == ApiSpecInit /\ [][ApiSpecNext]_vars

\* Both threads keep being scheduled: every step of the heartbeat thread but
\* the timeout of its wait, and every step of a stop_heartbeat() under way.
\* When the main thread calls set_status or stop_heartbeat is its caller's
\* choice, and a timeout takes heartbeat_time.
ReporterSpecInit == ReporterInit /\ EngineIdle /\ KafkaIdle /\ SinkIdle /\ ApiIdle /\ UtilsIdle /\ BuilderIdle /\ AdapterIdle /\ LagIdle /\ ProgressIdle
ReporterSpecNext == ReporterNext /\ UNCHANGED <<evars, kvars, svars, avars, uvars, bvars, dvars, lvars, pvars>>
ReporterFairness ==
    /\ WF_vars(StopSignal /\ UNCHANGED <<evars, kvars, svars, avars, uvars, bvars, dvars, lvars, pvars>>)
    /\ WF_vars(FinalHeartbeat /\ UNCHANGED <<evars, kvars, svars, avars, uvars, bvars, dvars, lvars, pvars>>)
    /\ WF_vars(Join /\ UNCHANGED <<evars, kvars, svars, avars, uvars, bvars, dvars, lvars, pvars>>)
    /\ WF_vars(CloseSink /\ UNCHANGED <<evars, kvars, svars, avars, uvars, bvars, dvars, lvars, pvars>>)
    /\ WF_vars(ThreadBegin /\ UNCHANGED <<evars, kvars, svars, avars, uvars, bvars, dvars, lvars, pvars>>)
    /\ WF_vars(ThreadCheck /\ UNCHANGED <<evars, kvars, svars, avars, uvars, bvars, dvars, lvars, pvars>>)
    /\ WF_vars(ThreadGetDetails /\ UNCHANGED <<evars, kvars, svars, avars, uvars, bvars, dvars, lvars, pvars>>)
    /\ WF_vars(ThreadSend /\ UNCHANGED <<evars, kvars, svars, avars, uvars, bvars, dvars, lvars, pvars>>)
    /\ WF_vars(WaitWake /\ UNCHANGED <<evars, kvars, svars, avars, uvars, bvars, dvars, lvars, pvars>>)
SpecReporter == ReporterSpecInit /\ [][ReporterSpecNext]_vars /\ ReporterFairness

UtilsSpecInit == UtilsInit /\ EngineIdle /\ KafkaIdle /\ SinkIdle /\ ApiIdle /\ ReporterIdle /\ BuilderIdle /\ AdapterIdle /\ LagIdle /\ ProgressIdle
UtilsSpecNext == UtilsNext /\ UNCHANGED <<evars, kvars, svars, avars, rvars, bvars, dvars, lvars, pvars>>
SpecRecords == UtilsSpecInit /\ [][UtilsSpecNext]_vars

BuilderSpecInit == BuilderInit /\ EngineIdle /\ KafkaIdle /\ SinkIdle /\ ApiIdle /\ ReporterIdle /\ UtilsIdle /\ AdapterIdle /\ LagIdle /\ ProgressIdle
BuilderSpecNext == BuilderNext /\ UNCHANGED <<evars, kvars, svars, avars, rvars, uvars, dvars, lvars, pvars>>
SpecLabels == BuilderSpecInit /\ [][BuilderSpecNext]_vars

AdapterSpecInit == AdapterInit /\ EngineIdle /\ KafkaIdle /\ SinkIdle /\ ApiIdle /\ ReporterIdle /\ UtilsIdle /\ BuilderIdle /\ LagIdle /\ ProgressIdle
AdapterSpecNext == AdapterNext /\ UNCHANGED <<evars, kvars, svars, avars, rvars, uvars, bvars, lvars, pvars>>
SpecAdapter == AdapterSpecInit /\ [][AdapterSpecNext]_vars

LagSpecInit == LagInit /\ EngineIdle /\ KafkaIdle /\ SinkIdle /\ ApiIdle /\ ReporterIdle /\ UtilsIdle /\ BuilderIdle /\ AdapterIdle /\ ProgressIdle
LagSpecNext == LagNext /\ UNCHANGED <<evars, kvars, svars, avars, rvars, uvars, bvars, dvars, pvars>>
SpecLag == LagSpecInit /\ [][LagSpecNext]_vars

ProgressSpecInit == ProgressInit /\ EngineIdle /\ KafkaIdle /\ SinkIdle /\ ReporterIdle /\ UtilsIdle /\ BuilderIdle /\ AdapterIdle /\ LagIdle
ProgressSpecNext == ProgressNext /\ UNCHANGED <<evars, kvars, svars, rvars, uvars, bvars, dvars, lvars>>
SpecProgress == ProgressSpecInit /\ [][ProgressSpecNext]_vars

\* ------------------------------------------------------------------ claims
\* What the claims read off the state.

\* A record as a consumer reads it: header keys with the text of their
\* values, and the text of key and value, whatever their encoding.
Decoded(r) ==
    [headers |-> [i \in 1..Len(r.headers) |-> <<r.headers[i].k, r.headers[i].v.s>>],
     key |-> r.key.s, value |-> r.value.s]

\* The keys under which a Security-Label / a Request-Id header occurs.
LabelKeys == {"Security-Label", "security-label"}
RequestIdKeys == {"Request-Id", "request-id"}

\* The texts of the values of a record's headers with a key in K, in order.
ValuesOf(r, K) ==
    LET In(h) == h[1] \in K
        hs == SelectSeq(Decoded(r).headers, In)
    IN [i \in 1..Len(hs) |-> hs[i][2]]

Range(f) == {f[i] : i \in DOMAIN f}
Last(q) == q[Len(q)]

\* Number of records the map function returned for the inputs before the n-th.
RECURSIVE OutputsBefore(_)
OutputsBefore(n) == IF n <= 1 THEN 0 ELSE OutputsBefore(n - 1) + Len(fnLog[n - 1].out)

\* The record sent to the target for the j-th record returned for input i.
SentFor(i, j) == Sent(target)[OutputsBefore(i) + j]

\* Inputs whose processing ran to its end (the function returned, or the
\* record was dead-lettered).
Processed == {i \in 1..Len(fnLog) : fnLog[i].kind \in {"none", "single", "list", "yield"}
                                     \/ (fnLog[i].kind = "dlq" /\ cfg.has_dlq)}

\* The run met nothing but returns and dead-lettered records so far.
OnlyRecoverable == Processed = 1..Len(fnLog)

\* The dead-letter records owed for the first n inputs, as a consumer reads them.
RECURSIVE DlqOwed(_)
DlqOwed(n) ==
    IF n = 0 THEN <<>>
    ELSE IF fnLog[n].kind = "dlq"
         THEN Append(DlqOwed(n - 1),
                     [headers |-> Decoded(srcRead[n]).headers
                                     \o << <<"Dead-Letter-Reason", fnLog[n].msg>> >>,
                      key |-> srcRead[n].key.s, value |-> srcRead[n].value.s])
         ELSE DlqOwed(n - 1)

\* C1: at-least-once processing.  Whenever no record is in flight (the action
\* is between two records, or its source has been closed), no offset has been
\* committed past a record whose processing has not completed, so that a
\* restart from the committed offsets misses no record.
C1_AtLeastOnce ==
    kpc \in {"top", "closed"} =>
        \A p \in Partitions : \A o \in LogStart..(consumer.committed[p] - 1) :
            Message(p, o) \in ledger.completed

\* C11: fewer than commit_interval records have been returned since the last
\* commit (made after every commit_interval-th record, on every revocation and
\* on close); right after a commit the committed position of every partition
\* a record was returned from is the offset following the last such record.
C11_CommitPositions ==
    /\ ledger.uncommitted < kcfg.commit_interval
    /\ ledger.uncommitted = 0 =>
          \A p \in Partitions : ledger.last[p] # NoMessage =>
              consumer.committed[p] = ledger.last[p].o + 1

\* A source closed after one record with commit_interval 2: the commit is
\* the one close() makes.
C11_Witness ==
    /\ kpc = "closed" /\ kcfg.commit_interval = 2 /\ source.records_seen = 1
    /\ \E p \in Partitions : ledger.last[p] # NoMessage /\ ledger.last[p].o = 1

\* C12: a second close() of a closed KafkaSource succeeds without error.
C12_CloseIdempotent == kpc = "closed_again" => ~ledger.close_error

C14_CloseFlushes ==
    spc = "closed" =>
        /\ ksink.buffer = <<>>
        /\ [i \in 1..Len(ksink.data) |-> Decoded(ksink.data[i])]
              = [i \in 1..Len(called) |-> Decoded(called[i])]

\* A sink closed after two sends.
C14_Witness ==
    /\ spc = "closed" /\ Len(called) = 2 /\ Len(ksink.data) = 2

C16_LifecycleOrder ==
    /\ (apiLast.op = "started" /\ apiLast.was \in {"started", "aborted"}) =>
          apiLast.raised /\ api = apiLast.before
    /\ (apiLast.op = "finished" /\ apiLast.was \in {"new", "finished"}) =>
          apiLast.raised /\ api = apiLast.before

\* started() called again after a record was processed.
C16_Witness ==
    /\ apiLast.op = "started" /\ apiLast.was = "started" /\ apiLast.raised
    /\ api.counter = 1 /\ api.total_timer = "set"

\* C17: after finished() and after aborted() the counters are 0, both timers
\* are cleared, the reporter's heartbeat is stopped and the error handler is
\* closed.
C17_TerminalReset ==
    pc \in {"source_close", "done"} =>
        /\ action.counter = 0 /\ action.error_count = 0
        /\ action.total_timer = "None" /\ action.batch_timer = "None"
        /\ cfg.has_reporter => reporter.state = "stopped"
        /\ cfg.has_error_handler => errorHandler.closed

\* C18: when stop_heartbeat() has returned the heartbeat thread has ended, a
\* heartbeat was sent by the main thread after the cancel flag was set, the
\* sink was closed only after that heartbeat and after the thread ended, and
\* no record was ever written to the closed sink.
C18_ReporterShutdown ==
    /\ mainpc = "stopped" => thread = "ended" /\ rsink.closed
    /\ rsink.closed =>
          /\ thread = "ended"
          /\ \E i \in 1..Len(rsink.data) :
                rsink.data[i].by = "main" /\ rsink.data[i].after_cancel
    /\ \A i \in 1..Len(rsink.data) : ~rsink.data[i].after_close

\* stop_heartbeat() returned after the thread had sent a heartbeat of its own
\* since the cancel flag was set.
C18_Witness ==
    /\ mainpc = "stopped"
    /\ \E i \in 1..Len(rsink.data) : rsink.data[i].by = "thread" /\ rsink.data[i].after_cancel

\* C19: the registration record carries STARTED, and once set_status(S) and
\* then stop_heartbeat() have returned, the last record in the reporter's
\* sink carries S.
C19_ReporterStatus ==
    /\ rsink.data # <<>> => rsink.data[1].status = "STARTED"
    /\ (mainpc = "stopped" /\ chosen # "none") => Last(rsink.data).status = chosen

\* C20: the heartbeat thread writes at most one heartbeat after the cancel
\* flag is set, and once stop_heartbeat() has set the flag and the Event it
\* returns, with no timeout of the thread's wait needed.
C20_ImmediateCancel ==
    /\ [](Cardinality({i \in 1..Len(rsink.data) :
              rsink.data[i].by = "thread" /\ rsink.data[i].after_cancel}) <= 1)
    /\ (task_cancelled /\ heartbeat_wait) ~> (mainpc = "stopped")
    /\ [][(task_cancelled /\ heartbeat_wait) => timeouts' = timeouts]_vars

\* stop_heartbeat() returned after it found the thread in its wait, no
\* timeout having happened at all.
C20_Witness ==
    /\ mainpc = "stopped" /\ timeouts = 0
    /\ Len(rsink.data) = 3 /\ rsink.data[2].by = "thread" /\ rsink.data[3].by = "main"

\* C21: add_header, add_headers, remove_header and replace_or_add_header leave
\* the input Record's headers as they were, and a result with headers holds
\* them in a list of its own, so that a later change to the result's headers
\* does not show in the input.
C21_Immutability ==
    ustep \in {"returned", "changed"} =>
        /\ Deref(input).headers = before
        /\ output.headers # 0 => output.headers # input.headers

\* C22 as stated: after add_header(r, k, v) with a string v, the first value
\* of k in the result is v, and r is unchanged.
C22_AddThenFirstIsNew ==
    (ustep = "returned" /\ call.fn = "add_header" /\ call.v.t = "str") =>
        /\ get_first_header(Deref(output), call.k) = call.v
        /\ Deref(input).headers = before

\* C22: after add_header(r, k, v) with a string v, the first value of k in the
\* result is v when r has no header whose key matches k case-insensitively,
\* and r's first value of k otherwise; r is unchanged.
C22_AddThenFirst ==
    (ustep = "returned" /\ call.fn = "add_header" /\ call.v.t = "str") =>
        LET r == Record(before, input.key, input.value)
        IN /\ get_first_header(Deref(output), call.k) =
                IF has_header(r, call.k) THEN get_first_header(r, call.k) ELSE call.v
           /\ Deref(input).headers = before

\* add_header("Test", "6789") on a record whose only header is test: 12345.
C22_Witness ==
    /\ ustep = "returned" /\ call.fn = "add_header"
    /\ call.k = "Test" /\ call.v = Str("6789")
    /\ before = <<Header("test", Bytes("12345"))>>
    /\ Len(Deref(output).headers) = 2

\* The headers of hs at the positions outside gone, in order.
RECURSIVE Without(_, _, _)
Without(hs, gone, n) ==
    IF n = 0 THEN <<>>
    ELSE IF n \in gone THEN Without(hs, gone, n - 1)
    ELSE Append(Without(hs, gone, n - 1), hs[n])

\* C23: remove_header(r, k) leaves no header whose key matches k
\* case-insensitively; remove_header(r, k, v) removes exactly the headers
\* whose key matches and whose stored value equals v (a str never equals a
\* bytes value); every other header stays, in its original order.
C23_RemoveHeader ==
    (ustep = "returned" /\ call.fn = "remove_header") =>
        LET gone == {i \in 1..Len(before) :
                        /\ casefold(before[i].k) = casefold(call.k)
                        /\ call.v = None \/ (before[i].v.t = call.v.t /\ before[i].v.s = call.v.s)}
        IN /\ Deref(output).headers = Without(before, gone, Len(before))
           /\ call.v = None => ~has_header(Deref(output), call.k)

\* remove_header(r, "test", "12345") on a record that has Test: b"12345":
\* nothing is removed.
C23_Witness ==
    /\ ustep = "returned" /\ call.fn = "remove_header"
    /\ call.k = "test" /\ call.v = Str("12345")
    /\ before = <<Header("Test", Bytes("12345")), Header("Other-Header", Str("6789"))>>
    /\ Deref(output).headers = before

\* The text the claim gives for AND-group entries ls and OR-expressions os.
RECURSIVE Chain(_, _, _)
Chain(sep, xs, n) == IF n = 0 THEN <<>> ELSE Chain(sep, xs, n - 1) \o sep \o xs[n]

C26_NoSilentSkip ==
    [][(kpc = "seek" /\ kpc' = "poll2" /\ polled # NoMessage) =>
          polled.p \in source'.already_seeked \ source.already_seeked]_vars

\* C27: a commit (every commit_interval records, on a revocation, on close)
\* writes offsets only for partitions that are assigned at that moment and
\* that a record was returned from since they were last assigned.
C27_CommitOnlyAssigned ==
    [][(\/ kpc = "tail" /\ kpc' = "processing"
            /\ source'.records_seen % kcfg.commit_interval = 0
        \/ kpc = "closing" /\ kpc' = "closed"
        \/ kpc' = kpc /\ consumer'.assignment # consumer.assignment
            /\ consumer'.assignment \subseteq consumer.assignment)
       => \A p \in Partitions : source'.last_offsets[p] # NoMessage =>
             /\ p \in consumer.assignment
             /\ \E m \in ledger'.returned \cup ledger.returned : m.p = p]_vars

\* C28: a rebalance callback changes nothing of the source but needs_seek
\* (set by on_partitions_assigned) and moves the read position of no
\* partition the consumer holds; partitions are seeked only by __next__
\* between its two polls; and needs_seek is False whenever __next__ has
\* returned a record.
C28_DeferredSeek ==
    /\ [](kpc = "processing" => ~source.needs_seek)
    /\ [][(kpc' = kpc /\ InPoll) =>
            /\ \A p \in consumer.assignment : consumer'.position[p] = consumer.position[p]
            /\ source' \in {source, [source EXCEPT !.needs_seek = TRUE]}
            /\ ledger'.seeks = ledger.seeks]_vars
    /\ [][(\/ \E p \in consumer.assignment :
                  consumer'.position[p] \notin {consumer.position[p], consumer.position[p] + 1}
            \/ source'.already_seeked \ source.already_seeked # {})
            => kpc = "seek" /\ kpc' = "poll2"]_vars

\* A record was returned after an assignment during a poll and the seek that
\* followed it in the same call.
C28_Witness ==
    /\ kpc = "processing" /\ kcfg.reset_position = "beginning"
    /\ ledger.rebalances >= 2 /\ ledger.seeks[current.m.p] = 1
    /\ source.records_seen = 2

\* C29: a remaining() that meets an error returns the value of the last
\* computation that met none (None without one) and leaves the cache at it.
C29_RemainingOnError ==
    lcall.kind = "failed" =>
        /\ lcall.result = lgood
        /\ last_known_remaining = lgood

\* C30: without errors remaining() is the sum over the assigned partitions of
\* the records not yet read (high watermark minus the position to read
\* next), is never larger than the call before returned, and is 0 once every
\* record was returned.
C30_RemainingIsLag ==
    (lcall.kind = "ok" /\ ~lfailed) =>
        /\ lcall.result = (lag.high[0] - lag.next[0]) + (lag.high[1] - lag.next[1])
        /\ lprev # Unknown => lcall.result <= lprev
        /\ (\A p \in Partitions : lag.next[p] = lag.high[p]) => lcall.result = 0

\* C31: a record_processed() or records_processed(n) call made after
\* started(), with no direct report_progress() call in the run, prints a
\* progress report exactly when it takes the counter to or past a multiple of
\* the reporting batch size.
C31_ProgressTrigger ==
    (apiLast.op \in {"record_processed", "records_processed"}
        /\ apiLast.was = "started" /\ ~run.direct) =>
        ((Len(api.reports) > Len(apiLast.before.reports))
            <=> (api.counter \div ReportingBatchSize
                    > apiLast.before.counter \div ReportingBatchSize))

\* The progress reports printed since the last started().
RunReports == SubSeq(api.reports, run.start + 1, Len(api.reports))

RECURSIVE SumLast(_, _)
SumLast(rs, n) == IF n = 0 THEN 0 ELSE SumLast(rs, n - 1) + rs[n].last

\* C32: when finished() or aborted() has returned, the "last N records"
\* figures of the run's progress reports add up to the records processed in
\* the run, each report covering the records after the report before it.
C32_FinalBatch ==
    (apiLast.op \in {"finished", "aborted"} /\ ~apiLast.raised /\ apiLast.was = "started") =>
        /\ SumLast(RunReports, Len(RunReports)) = apiLast.before.counter
        /\ \A i \in 1..Len(RunReports) :
              /\ RunReports[i].last > 0
              /\ RunReports[i].at - RunReports[i].last
                    = IF i = 1 THEN 0 ELSE RunReports[i - 1].at

\* C33: a report_progress() call made after another one, with the counter at
\* the same value in between, returns without printing and leaves
\* last_report_at, next_batch_boundary and the batch timer as they were.
C33_ReportIdempotent ==
    run.again =>
        /\ ~apiLast.raised
        /\ api.reports = apiLast.before.reports
        /\ api.last_report_at = apiLast.before.last_report_at
        /\ api.next_batch_boundary = apiLast.before.next_batch_boundary
        /\ api.batch_timer = apiLast.before.batch_timer

\* A second report_progress() in a started run, the first of which printed.
C33_Witness ==
    /\ run.again /\ lifecycle = "started"
    /\ Len(api.reports) > run.start
    /\ api.counter > 0

\* C34: last_report_at never exceeds the counter, and no progress report
\* gives a negative number of records.
C34_LastReportAt ==
    /\ api.last_report_at <= api.counter
    /\ \A i \in 1..Len(api.reports) : api.reports[i].last >= 0

\* C35: in a Mapper's run(), however the loop was left, finished() or
\* aborted() runs only after the target's close() has returned with nothing
\* sent left undelivered, the source is closed only after that, and the
\* source has been closed, once, when run() is left.
C35_ShutdownOrder ==
    engine = "mapper" =>
        /\ action.summary # "None" => target.closed /\ target.buffer = <<>>
        /\ exit.source_closed => action.summary # "None"
        /\ pc = "source_close" => ~exit.source_closed
        /\ pc = "done" => exit.source_closed

\* A Mapper over an asynchronous sink was interrupted after sending, and has
\* left run().
C35_Witness ==
    /\ engine = "mapper" /\ pc = "done" /\ cfg.sink_kind = "kafka"
    /\ exit.kind = "interrupt" /\ exit.source_closed
    /\ Len(target.data) >= 1 /\ action.summary = "Aborted"

\* C36: when run() of a Mapper or a Projector has returned or raised, every
\* record that was passed to dlq_target.send() has been delivered.
C36_DlqFlushed ==
    (engine \in {"mapper", "projector"} /\ pc = "done") => dlq.buffer = <<>>

\* C37: when the map or projector function raises the DLQ signal and no
\* dlq_target is set, the run fails with RuntimeError: the record goes to
\* neither sink and is not counted as processed, and once the handler has run
\* the RuntimeError was counted and handed to the error handler, the action
\* is aborted, and run() raises the RuntimeError.
C37_DlqWithoutTarget ==
    (engine \in {"mapper", "projector"} /\ ~cfg.has_dlq
        /\ Len(fnLog) > 0 /\ Last(fnLog).kind = "dlq") =>
        /\ exit.kind = "error" /\ exit.exc = "RuntimeError"
        /\ Sent(dlq) = <<>>
        /\ Len(Sent(target)) = OutputsBefore(Len(fnLog))
        /\ action.counter = Len(fnLog) - 1
        /\ action.records_processed_counter = Len(fnLog) - 1
        /\ pc \in {"target_close", "except"} =>
              action.error_count = 0 /\ action.summary = "None"
        /\ pc \in {"source_close", "done"} =>
              /\ action.error_count = 1
              /\ cfg.has_error_handler =>
                    errorHandler.sent = <<[exception |-> "RuntimeError",
                                           counter |-> Len(fnLog) - 1]>>
              /\ action.summary = "Aborted"
              /\ exit.raised = "RuntimeError"
        /\ pc = "done" => exit.result = "raised"

\* A Mapper without a dlq_target met the DLQ signal on its second record,
\* after sending an output for the first, and has left run().
C37_Witness ==
    /\ engine = "mapper" /\ ~cfg.has_dlq /\ pc = "done"
    /\ Len(fnLog) = 2 /\ fnLog[2].kind = "dlq"
    /\ Len(Sent(target)) >= 1
    /\ exit.result = "raised"

\* The positions of hs whose key matches k case-insensitively.
Matching(hs, k) == {i \in 1..Len(hs) : casefold(hs[i].k) = casefold(k)}

\* C38: replace_or_add_header(r, k, v) gives the first header matching k the
\* value v and leaves its key, its position and every other header as they
\* were; without a match it appends the one entry (k, v); the number of
\* headers matching k afterwards is max(1, number before).
C38_ReplaceOrAdd ==
    (ustep = "returned" /\ call.fn = "replace_or_add_header") =>
        LET hs == before
            out == Deref(output).headers
            ms == Matching(hs, call.k)
        IN /\ ms # {} =>
                 LET m == CHOOSE i \in ms : \A j \in ms : i <= j
                 IN /\ Len(out) = Len(hs)
                    /\ out[m] = Header(hs[m].k, call.v)
                    /\ \A i \in 1..Len(hs) : i # m => out[i] = hs[i]
           /\ ms = {} => out = Append(hs, Header(call.k, call.v))
           /\ Cardinality(Matching(out, call.k))
                 = IF ms = {} THEN 1 ELSE Cardinality(ms)

\* The keys of the headers in hs.
KeysOf(hs) == {hs[i].k : i \in 1..Len(hs)}

\* C39: the lookups match keys case-insensitively, and every header key of
\* the record a RecordUtils function returns is, character for character, a
\* key of the input record or a key the caller passed.
C39_KeyCase ==
    (ustep = "returned") =>
        LET out == Deref(output)
        IN /\ \A k \in HeaderKeys :
                 /\ get_headers(out, k) = get_headers(out, casefold(k))
                 /\ get_first_header(out, k) = get_first_header(out, casefold(k))
                 /\ get_last_header(out, k) = get_last_header(out, casefold(k))
                 /\ has_header(out, k) = (Matching(out.headers, k) # {})
           /\ KeysOf(out.headers) \subseteq
                 KeysOf(before) \cup KeysOf(call.hs)
                    \cup (IF call.fn = "add_headers" THEN {} ELSE {call.k})

\* C2: with a dlq_target set, the DLQ sink holds, once each and in order,
\* exactly the inputs on which the map / projector function raised
\* DLQException, each with one Dead-Letter-Reason header carrying the
\* exception text after its own headers; none of them reached the target.
C2_DlqRouting ==
    (engine \in {"mapper", "projector"} /\ cfg.has_dlq) =>
        /\ [i \in 1..Len(Sent(dlq)) |-> Decoded(Sent(dlq)[i])] = DlqOwed(Len(fnLog))
        /\ \A i \in 1..Len(fnLog) : fnLog[i].kind = "dlq" =>
              \A j \in 1..Len(Sent(target)) : Decoded(Sent(target)[j]).key # srcRead[i].key.s

\* A run that dead-lettered a record with headers of its own and sent
\* another input's output to the target.
C2_Witness ==
    /\ pc = "done" /\ engine = "mapper" /\ cfg.has_dlq
    /\ Len(Sent(dlq)) = 1 /\ Len(Sent(target)) = 1
    /\ \E i \in 1..Len(fnLog) : fnLog[i].kind = "dlq" /\ Len(srcRead[i].headers) > 0

\* C3: when the map, projector or adapter function raises an Exception (not
\* the DLQ signal, not an interrupt), nothing is reported before the handler
\* runs; after it the exception has been counted and handed to the error
\* handler exactly once, the action is aborted, the target is closed with
\* nothing left to deliver, the reporter is stopped, and run() raises that
\* same exception; from the failure on no record is read or sent.
C3_FatalError ==
    /\ [](exit.kind = "error" =>
            /\ Last(fnLog).kind \in {"fatal", "dlq"}
            /\ exit.exc = (IF Last(fnLog).kind = "fatal" THEN Last(fnLog).msg ELSE "RuntimeError")
            /\ pc \in {"target_close", "except"} =>
                  /\ errorHandler = NewErrorHandler
                  /\ action.error_count = 0
                  /\ action.summary = "None"
            /\ pc \in {"source_close", "done"} =>
                  /\ action.error_count = 1
                  /\ cfg.has_error_handler =>
                        /\ Len(errorHandler.sent) = 1
                        /\ errorHandler.sent[1].exception = exit.exc
                        /\ errorHandler.closed
                  /\ action.summary = "Aborted"
                  /\ engine # "projector" => target.closed /\ target.buffer = <<>>
                  /\ cfg.has_reporter => reporter.state = "stopped" /\ reporter.status = "ERRORING"
                  /\ exit.raised = exit.exc
            /\ pc = "done" => exit.result = "raised")
    /\ [][exit.kind = "error" =>
            /\ UNCHANGED <<srcRead, fnLog>>
            /\ Sent(target)' = Sent(target)
            /\ Sent(dlq)' = Sent(dlq)]_vars

\* A mapper that failed on its second record, after sending an output.
C3_Witness ==
    /\ pc = "done" /\ engine = "mapper" /\ exit.kind = "error"
    /\ cfg.has_error_handler /\ cfg.has_reporter
    /\ Len(fnLog) = 2 /\ fnLog[2].kind = "fatal" /\ Len(Sent(target)) >= 1
    /\ exit.result = "raised"

\* C4: every record the Mapper sends to the target, for a single returned
\* record and for each element of a returned list, carries every
\* Security-Label value of the input when the input has labels, the returned
\* record has none and DISABLE_PERSISTENT_HEADERS is not '1'.
C4_LabelPersistence ==
    engine = "mapper" =>
        \A i \in 1..Len(fnLog) : \A j \in 1..Len(fnLog[i].out) :
            ( /\ fnLog[i].kind \in {"single", "list"}
              /\ ValuesOf(srcRead[i], LabelKeys) # <<>>
              /\ ValuesOf(fnLog[i].out[j], LabelKeys) = <<>>
              /\ ~cfg.disable_persistent_headers )
            => Range(ValuesOf(srcRead[i], LabelKeys)) \subseteq Range(ValuesOf(SentFor(i, j), LabelKeys))

\* C5: with reset policy 'beginning', the first record returned from a
\* partition that a rebalance assigned and that had never been seeked is the
\* one at the partition's earliest offset; a partition is seeked at most once
\* and, while it stays assigned, no record of it is returned twice.
C5_SeekOnAssign ==
    /\ (kcfg.reset_position = "beginning" /\ kpc = "processing" /\ current.fresh)
          => current.m.o = LogStart
    /\ \A p \in Partitions : ledger.seeks[p] <= 1
    /\ ~ledger.twice

\* C6: with a dlq_target set, every record whose processing ended, the
\* dead-lettered ones included, has been counted as processed exactly once;
\* as long as the functions only returned or raised DLQException the loop
\* has not been left for a handler, the error handler has been sent nothing
\* and is open, the action is not aborted, and run() ends through finished()
\* and returns.
C6_DlqRecoverable ==
    (engine \in {"mapper", "projector"} /\ cfg.has_dlq) =>
        /\ action.records_processed_counter = Cardinality(Processed)
        /\ OnlyRecoverable =>
              /\ exit.kind \in {"none", "normal"}
              /\ pc = "loop" => action.counter = Len(fnLog) /\ action.read_counter = Len(srcRead)
              /\ errorHandler = NewErrorHandler
              /\ action.error_count = 0
              /\ action.summary # "Aborted"
              /\ pc \in {"source_close", "done"} =>
                    /\ action.summary = "Finished"
                    /\ cfg.has_reporter => reporter.status = "COMPLETED"
              /\ pc = "done" => exit.result = "returned" /\ exit.raised = ""

\* A projector run that dead-lettered its first record, processed the
\* second, and finished.
C6_Witness ==
    /\ pc = "done" /\ engine = "projector" /\ cfg.has_dlq
    /\ Len(fnLog) = 2 /\ fnLog[1].kind = "dlq" /\ fnLog[2].kind = "none"
    /\ action.summary = "Finished" /\ Len(Sent(dlq)) = 1

C8_FlatMap ==
    engine = "mapper" =>
        /\ Len(Sent(target)) = OutputsBefore(Len(fnLog) + 1)
        /\ \A i \in 1..Len(fnLog) : fnLog[i].kind = "list" =>
              \A j \in 1..Len(fnLog[i].out) :
                  /\ Decoded(SentFor(i, j)).value = fnLog[i].out[j].value.s
                  /\ ValuesOf(srcRead[i], RequestIdKeys) # <<>> =>
                        ValuesOf(SentFor(i, j), {"Input-Request-Id"})
                            = <<Last(ValuesOf(srcRead[i], RequestIdKeys))>>
        /\ \A a, b \in 1..Len(Sent(target)) :
              a # b => Last(ValuesOf(Sent(target)[a], RequestIdKeys))
                          # Last(ValuesOf(Sent(target)[b], RequestIdKeys))

\* The headers the Mapper appended to what the map function returned, without
\* the optional ones (Input-Request-Id, persisted Security-Labels).
Appended(i) ==
    LET own == Len(fnLog[i].out[1].headers)
        all == Decoded(SentFor(i, 1)).headers
        Fixed(h) == h[1] \notin ({"Input-Request-Id"} \cup LabelKeys)
    IN SelectSeq(SubSeq(all, own + 1, Len(all)), Fixed)

\* C9: while the map function returns one record per input, the target holds
\* one record per input read, in the order of the source, each being the
\* returned record (its key, value and headers) followed by the Request-Id,
\* Exec-Path and traceparent headers; so it does when run() has returned.
C9_Ordering ==
    (engine = "mapper" /\ \A i \in 1..Len(fnLog) : fnLog[i].kind = "single") =>
        /\ Len(Sent(target)) = Len(srcRead)
        /\ \A i \in 1..Len(srcRead) :
              LET f == Decoded(fnLog[i].out[1])
                  s == Decoded(Sent(target)[i])
              IN /\ s.key = srcRead[i].key.s /\ s.key = ToString(i)
                 /\ s.key = f.key /\ s.value = f.value
                 /\ SubSeq(s.headers, 1, Len(f.headers)) = f.headers
                 /\ Appended(i) = << <<"Request-Id", SinkName \o ":" \o ToString(i)>>,
                                     <<"Exec-Path", generated_id>>,
                                     <<"traceparent", InjectedTraceparent>> >>
        /\ pc = "done" => exit.result = "returned" /\ target.data = Sent(target)

\* A returned run of two records, one output each.
C9_Witness ==
    /\ pc = "done" /\ engine = "mapper" /\ exit.result = "returned"
    /\ Len(fnLog) = 2 /\ \A i \in 1..2 : fnLog[i].kind = "single"
    /\ Len(target.data) = 2

\* C10: the record sent for a returned record has exactly the returned
\* record's Security-Label values when the returned record carries a
\* Security-Label, when DISABLE_PERSISTENT_HEADERS is '1', or when the input
\* has no Security-Label.
C10_NoLabelAdded ==
    engine = "mapper" =>
        \A i \in 1..Len(fnLog) : \A j \in 1..Len(fnLog[i].out) :
            ( /\ fnLog[i].kind \in {"single", "list"}
              /\ \/ ValuesOf(fnLog[i].out[j], LabelKeys) # <<>>
                 \/ cfg.disable_persistent_headers
                 \/ ValuesOf(srcRead[i], LabelKeys) = <<>> )
            => ValuesOf(SentFor(i, j), LabelKeys) = ValuesOf(fnLog[i].out[j], LabelKeys)

\* A labelled input whose single output carries its own label, and a run
\* with persistence disabled over a labelled input and an unlabelled output.
C10_Witness ==
    /\ engine = "mapper" /\ Len(fnLog) >= 1 /\ fnLog[1].kind = "single"
    /\ ValuesOf(srcRead[1], LabelKeys) # <<>>
    /\ \/ ValuesOf(fnLog[1].out[1], LabelKeys) = <<"NewLabel">>
       \/ cfg.disable_persistent_headers /\ ValuesOf(fnLog[1].out[1], LabelKeys) = <<>>
    /\ Len(Sent(target)) >= 1

====
